---------------------------- MODULE Spec2Model ----------------------------
(***************************************************************************)
(* State-machine model of src/posix/platform/netif.cpp: the bridge between *)
(* the OpenThread IPv6 stack and a host TUN interface.                      *)
(*                                                                         *)
(* The bridge (netif.cpp) is modelled from its source.  Its two peers are  *)
(* the environment: the IPv6 stack (address tables, enabled flag, message  *)
(* buffers) and the host kernel (interface address table, IFF_UP, routing  *)
(* notifications, MLDv2 reports, the tun device).                          *)
(*                                                                         *)
(* Every handler of netif.cpp is an operator from a world record to a      *)
(* world record, so that a handler can call another one exactly as the     *)
(* source does; the actions apply them to the variables.                   *)
(***************************************************************************)
EXTENDS Integers, Sequences, FiniteSets, TLC

VARIABLES
    platform,       \* build dialect: "linux", "darwin", "freebsd", "netbsd"
    sTunFd,         \* netif.cpp:205
    sIpFd,          \* netif.cpp:206
    sNetlinkFd,     \* netif.cpp:207
    sMLDMonitorFd,  \* netif.cpp:209
    sTunIndex,      \* netif.cpp:211
    exitCode,       \* "running", or the exit category of VerifyOrDie/DieNow
    kernUnicast,    \* kernel: unicast addresses of the tunnel, addr -> prefix length
    kernMulticast,  \* kernel: groups joined on the tunnel
    kernUp,         \* kernel: IFF_UP of the tunnel
    kernFlags,      \* kernel: the other interface flags of the tunnel
    otUnicast,      \* stack: unicast addresses, addr -> prefix length
    otMulticast,    \* stack: multicast subscriptions
    otEnabled,      \* stack: otIp6IsEnabled
    otChanged,      \* stack: a state-changed notification is waiting for its callback
    netlinkQ,       \* datagrams waiting on sNetlinkFd
    mldQ,           \* datagrams waiting on sMLDMonitorFd
    tunQ,           \* frames waiting on sTunFd
    calls,          \* the stack calls and system calls made by the last step
    step,           \* the last step: its name and what it was given
    nStack,         \* stack-side operations so far
    nExt            \* external kernel-side operations so far

vars == << platform, sTunFd, sIpFd, sNetlinkFd, sMLDMonitorFd, sTunIndex, exitCode,
           kernUnicast, kernMulticast, kernUp, kernFlags, otUnicast, otMulticast, otEnabled,
           otChanged, netlinkQ, mldQ, tunQ, calls, step, nStack, nExt >>

(***************************************************************************)
(* Bounds of the model.                                                    *)
(***************************************************************************)
MaxStackOps == 4
MaxExtOps == 2
MaxLinkOps == 3
MaxFrames == 2

(***************************************************************************)
(* Program constants.                                                      *)
(***************************************************************************)
kMaxIp6Size == 1536
kICMPv6MLDv2Type == 143
kICMPv6MLDv2RecordChangeToExcludeType == 3
kICMPv6MLDv2RecordChangeToIncludeType == 4
MLDv2HeaderSize == 8
MLDv2RecordSize == 20

Linux == "linux"
Darwin == "darwin"
FreeBSD == "freebsd"
NetBSD == "netbsd"

\* #if defined(__linux__) / #if defined(__APPLE__) || __NetBSD__ || __FreeBSD__
IsLinux(p) == p = Linux
IsBSD(p) == p \in {Darwin, FreeBSD, NetBSD}

\* OPENTHREAD_POSIX_USE_MLD_MONITOR: 0 where RTM_NEWMADDR exists, and on NetBSD
UseMLDMonitor(p) == p = Linux

\* RTM_NEWMADDR / RTM_DELMADDR are defined (macOS, FreeBSD)
HasRtmMAddr(p) == p \in {Darwin, FreeBSD}

\* PF_INET6 of the build's <sys/socket.h>
PF_INET6(p) ==
    CASE p = Linux -> 10
      [] p = Darwin -> 30
      [] p = FreeBSD -> 28
      [] p = NetBSD -> 24

(***************************************************************************)
(* IPv6 addresses: 16 octets.                                              *)
(***************************************************************************)
Octets == 1..16

Addr(b0, b1, b14, b15) ==
    [i \in Octets |-> CASE i = 1 -> b0 [] i = 2 -> b1 [] i = 15 -> b14
                        [] i = 16 -> b15 [] OTHER -> 0]

\* a variant of IsMulticast that takes every address for unicast
UnicastMutant_IsMulticast(a) == FALSE

\* ot::Ip6::Address::IsMulticast, and the test of processAddressChange
IsMulticast(a) == a[1] = 255

\* IN6_IS_ADDR_LINKLOCAL: the first 10 bits are 1111 1110 10
IN6_IS_ADDR_LINKLOCAL(a) == a[1] = 254 /\ (a[2] \div 64) = 2

\* a variant of IN6_IS_ADDR_MC_LINKLOCAL that accepts a multicast address of any scope
AnyScopeMutant_IN6_IS_ADDR_MC_LINKLOCAL(a) == a[1] = 255

\* IN6_IS_ADDR_MC_LINKLOCAL: ff and scope 2
IN6_IS_ADDR_MC_LINKLOCAL(a) == a[1] = 255 /\ (a[2] % 16) = 2

Unspecified == Addr(0, 0, 0, 0)
Gua1 == Addr(32, 1, 0, 1)          \* 2001::1
Gua2 == Addr(32, 1, 0, 2)          \* 2001::2
Lla1 == Addr(254, 128, 171, 205)   \* fe80::abcd
Mca1 == Addr(255, 3, 171, 205)     \* ff03::abcd
PeerLla == Addr(254, 128, 0, 153)  \* fe80::99, a neighbour's address


(***************************************************************************)
(* Small helpers.                                                          *)
(***************************************************************************)
Put(f, k, v) == [x \in (DOMAIN f) \cup {k} |-> IF x = k THEN v ELSE f[x]]
Drop(f, k) == [x \in (DOMAIN f) \ {k} |-> f[x]]
NoAddrs == [x \in {} |-> 0]

SetOctet(a, i, v) == [a EXCEPT ![i] = v]

\* the low 8 bits of x << 8 and of x << 0 (netif.cpp:548-549)
ShiftLeft8Low(x) == (x * 256) % 256
ShiftLeft0Low(x) == x % 256

Pow2(n) == CASE n = 0 -> 1 [] n = 1 -> 2 [] n = 2 -> 4 [] n = 3 -> 8 [] n = 4 -> 16
             [] n = 5 -> 32 [] n = 6 -> 64 [] n = 7 -> 128 [] n = 8 -> 256

\* byte & ~(0xFF >> r): the top r bits of the byte are kept
KeepTopBits(byte, r) == (byte \div Pow2(8 - r)) * Pow2(8 - r)

\* netif.cpp:316-329
apply_mask(address, mask0) ==
    LET mask == IF mask0 > 128 THEN 128 ELSE mask0
        cleared == [i \in Octets |-> IF i - 1 >= (mask + 7) \div 8 THEN 0 ELSE address[i]]
    IN  IF mask % 8 # 0
        THEN [cleared EXCEPT ![(mask \div 8) + 1] = KeepTopBits(@, mask % 8)]
        ELSE cleared

AllOnes == [i \in Octets |-> 255]

\* a variant of LeadingOnes that counts no bit
ZeroMutant_LeadingOnes(byte, j) == 0

RECURSIVE LeadingOnes(_, _)
\* the inner loop of calculate_prefix_len: bits 7..0 until the first clear bit
LeadingOnes(byte, j) ==
    IF j < 0 THEN 0
    ELSE IF (byte \div Pow2(j)) % 2 = 1 THEN 1 + LeadingOnes(byte, j - 1) ELSE 0

RECURSIVE PrefixLenFrom(_, _)
PrefixLenFrom(a, i) ==
    IF i > 16 THEN 0
    ELSE IF a[i] = 255 THEN 8 + PrefixLenFrom(a, i + 1)
    ELSE LeadingOnes(a[i], 7)

\* netif.cpp:331-362
calculate_prefix_len(sin6_addr) == PrefixLenFrom(sin6_addr, 1)

(***************************************************************************)
(* The world a handler runs in: the variables as one record, plus the      *)
(* step's inputs: `fault`, the errno ("none" for no fault) with which the  *)
(* kernel refuses the step's configuration calls and tun writes; `otFault`,*)
(* the way the stack's buffer pool fails; `cause`, who started the step    *)
(* ("stack", "bridge" or "ext"), copied into the notifications the kernel  *)
(* emits so that an echo can be told from an external change; `junk`, the  *)
(* 16 octets an uninitialized sockaddr_in6 on the handler's stack holds;    *)
(* `inline`, whether the stack runs the callbacks a call of its interface  *)
(* causes before that call returns.                                        *)
(***************************************************************************)
World(in) ==
    [plat |-> platform, tunfd |-> sTunFd, ipfd |-> sIpFd, nlfd |-> sNetlinkFd,
     mldfd |-> sMLDMonitorFd, idx |-> sTunIndex, exit |-> exitCode,
     ku |-> kernUnicast, km |-> kernMulticast, kup |-> kernUp, kfl |-> kernFlags,
     su |-> otUnicast, sm |-> otMulticast, sen |-> otEnabled, chg |-> otChanged,
     nlq |-> netlinkQ, mldq |-> mldQ, tunq |-> tunQ, calls |-> << >>,
     fault |-> in.fault, otFault |-> in.otFault, cause |-> in.cause, junk |-> in.junk,
     inline |-> in.inline]

Commit(w) ==
    /\ platform' = w.plat
    /\ sTunFd' = w.tunfd
    /\ sIpFd' = w.ipfd
    /\ sNetlinkFd' = w.nlfd
    /\ sMLDMonitorFd' = w.mldfd
    /\ sTunIndex' = w.idx
    /\ exitCode' = w.exit
    /\ kernUnicast' = w.ku
    /\ kernMulticast' = w.km
    /\ kernUp' = w.kup
    /\ kernFlags' = w.kfl
    /\ otUnicast' = w.su
    /\ otMulticast' = w.sm
    /\ otEnabled' = w.sen
    /\ otChanged' = w.chg
    /\ netlinkQ' = w.nlq
    /\ mldQ' = w.mldq
    /\ tunQ' = w.tunq
    /\ calls' = w.calls

Running(w) == w.exit = "running"

\* the calls of the step, in order; a call after the process has exited does not happen
Log(w, c) == IF Running(w) THEN [w EXCEPT !.calls = Append(@, c)] ELSE w

\* VerifyOrDie / SuccessOrDie / DieNow: the process exits; nothing runs after it
Die(w, code) == [w EXCEPT !.exit = IF @ = "running" THEN code ELSE @]


(***************************************************************************)
(* The kernel's notifications.                                             *)
(***************************************************************************)
RECURSIVE Flatten(_)
Flatten(ss) == IF ss = << >> THEN << >> ELSE Head(ss) \o Flatten(Tail(ss))

Zeros(n) == [i \in 1..n |-> 0]
Hi(x) == (x \div 256) % 256
Lo(x) == x % 256

\* KAME kernels embed the interface index in octets 2-3 of link-local scoped addresses
ScopeEmbed(a, idx) ==
    IF IN6_IS_ADDR_LINKLOCAL(a) \/ IN6_IS_ADDR_MC_LINKLOCAL(a)
    THEN SetOctet(SetOctet(a, 3, Hi(idx)), 4, Lo(idx))
    ELSE a

\* One nlmsghdr of an rtnetlink address notification: ifaddrmsg and its attributes
NlAddrMsg(type, idx, a, plen, org) ==
    [nlmsg_type |-> type, ifa_index |-> idx, ifa_family |-> "AF_INET6",
     ifa_prefixlen |-> plen,
     rta |-> << [rta_type |-> "IFA_ADDRESS", data |-> a],
                [rta_type |-> "IFA_CACHEINFO", data |-> Unspecified] >>,
     org |-> org,
     about |-> [kind |-> IF type = "RTM_NEWADDR" THEN "AddrAdd" ELSE "AddrDel",
                addr |-> a, plen |-> plen]]

\* One nlmsghdr of an rtnetlink link notification: ifinfomsg
NlLinkMsg(type, idx, up, org) ==
    [nlmsg_type |-> type, ifi_index |-> idx, ifi_up |-> up, org |-> org,
     about |-> [kind |-> "LinkChange", up |-> up]]

\* A routing-socket ifa_msghdr with its sockaddr array, in RTAX order
RtAddrMsg(type, idx, a, plen, org) ==
    [rtm_type |-> type, index |-> idx,
     addrs |-> << [rtax |-> "RTAX_NETMASK", sa_family |-> "AF_INET6",
                   sin6_addr |-> apply_mask(AllOnes, plen)],
                  [rtax |-> "RTAX_IFA", sa_family |-> "AF_INET6",
                   sin6_addr |-> ScopeEmbed(a, idx)] >>,
     org |-> org,
     about |-> [kind |-> IF type = "RTM_NEWADDR" THEN "AddrAdd" ELSE "AddrDel",
                addr |-> a, plen |-> plen]]

\* A routing-socket ifma_msghdr: gateway and ifp are link-layer sockaddrs
RtMAddrMsg(type, idx, g, org) ==
    [rtm_type |-> type, index |-> idx,
     addrs |-> << [rtax |-> "RTAX_GATEWAY", sa_family |-> "AF_LINK",
                   sin6_addr |-> Unspecified],
                  [rtax |-> "RTAX_IFP", sa_family |-> "AF_LINK",
                   sin6_addr |-> Unspecified],
                  [rtax |-> "RTAX_IFA", sa_family |-> "AF_INET6",
                   sin6_addr |-> ScopeEmbed(g, idx)] >>,
     org |-> org,
     about |-> [kind |-> IF type = "RTM_NEWMADDR" THEN "MAddrAdd" ELSE "MAddrDel",
                addr |-> g]]

RtInfoMsg(idx, up, org) ==
    [rtm_type |-> "RTM_IFINFO", index |-> idx, org |-> org,
     about |-> [kind |-> "LinkChange", up |-> up]]

\* struct MLDv2Record (netif.cpp:229-235) followed by its sources, as octets
MLDRecordBytes(r) ==
    << r.mRecordType, r.mAuxDataLen, Hi(r.mNumSources), Lo(r.mNumSources) >>
        \o r.mMulticastAddress \o Zeros(16 * r.nSourcesPresent)

\* struct MLDv2Header (netif.cpp:219-226) followed by the records, as octets
MLDReportBytes(type, numRecords, recs) ==
    << type, 0, 0, 0, 0, 0, Hi(numRecords), Lo(numRecords) >>
        \o Flatten([i \in 1..Len(recs) |-> MLDRecordBytes(recs[i])])

MLDRecord(type, g) ==
    [mRecordType |-> type, mAuxDataLen |-> 0, mNumSources |-> 0,
     mMulticastAddress |-> g, nSourcesPresent |-> 0]

\* RFC 3810 5.2.13: a report is sent from a link-local address of the interface,
\* or from :: while the interface has none
MldSource(w) ==
    IF \E a \in DOMAIN w.ku : IN6_IS_ADDR_LINKLOCAL(a)
    THEN CHOOSE a \in DOMAIN w.ku : IN6_IS_ADDR_LINKLOCAL(a)
    ELSE Unspecified

\* RFC 3810 5.2.12: a join is reported as CHANGE_TO_EXCLUDE_MODE (4) with no
\* sources, a leave as CHANGE_TO_INCLUDE_MODE (3) with no sources
MldDatagram(src, type, numRecords, recs, org) ==
    [src |-> src, buf |-> MLDReportBytes(type, numRecords, recs), org |-> org,
     about |-> [type |-> type, recs |-> recs]]
MldJoinReport(w, g) == MldDatagram(MldSource(w), 143, 1, << MLDRecord(4, g) >>, w.cause)
MldLeaveReport(w, g) == MldDatagram(MldSource(w), 143, 1, << MLDRecord(3, g) >>, w.cause)

KernNotifyAddr(w, isNew, a, plen) ==
    IF IsLinux(w.plat)
    THEN [w EXCEPT !.nlq = Append(@, << NlAddrMsg(IF isNew THEN "RTM_NEWADDR" ELSE "RTM_DELADDR",
                                                   w.idx, a, plen, w.cause) >>)]
    ELSE [w EXCEPT !.nlq = Append(@, RtAddrMsg(IF isNew THEN "RTM_NEWADDR" ELSE "RTM_DELADDR",
                                                w.idx, a, plen, w.cause))]

KernNotifyMAddr(w, isJoin, g) ==
    IF UseMLDMonitor(w.plat)
    THEN [w EXCEPT !.mldq = Append(@, IF isJoin THEN MldJoinReport(w, g)
                                                 ELSE MldLeaveReport(w, g))]
    ELSE IF HasRtmMAddr(w.plat)
    THEN [w EXCEPT !.nlq = Append(@, RtMAddrMsg(IF isJoin THEN "RTM_NEWMADDR" ELSE "RTM_DELMADDR",
                                                 w.idx, g, w.cause))]
    ELSE w

KernNotifyLink(w) ==
    IF IsLinux(w.plat)
    THEN [w EXCEPT !.nlq = Append(@, << NlLinkMsg("RTM_NEWLINK", w.idx, w.kup, w.cause) >>)]
    ELSE [w EXCEPT !.nlq = Append(@, RtInfoMsg(w.idx, w.kup, w.cause))]


(***************************************************************************)
(* The kernel's configuration calls, as the bridge issues them on sIpFd.   *)
(* Each returns the world after the call and the call's errno ("OK" for a  *)
(* return value of 0).                                                     *)
(***************************************************************************)
KernGroups(w) == {m.grp : m \in w.km}

\* ioctl(sIpFd, SIOCSIFADDR) on Linux refuses an address the interface has (EEXIST);
\* ioctl(sIpFd, SIOCAIFADDR_IN6) on the BSDs adds or updates it
KernAddrAdd(w, a, plen) ==
    IF w.fault # "none" THEN [w |-> w, errno |-> w.fault]
    ELSE IF IsLinux(w.plat) /\ a \in DOMAIN w.ku THEN [w |-> w, errno |-> "EEXIST"]
    ELSE [w |-> KernNotifyAddr([w EXCEPT !.ku = Put(@, a, plen)], TRUE, a, plen),
          errno |-> "OK"]

\* ioctl(sIpFd, SIOCDIFADDR / SIOCDIFADDR_IN6)
KernAddrDel(w, a) ==
    IF w.fault # "none" THEN [w |-> w, errno |-> w.fault]
    ELSE IF a \notin DOMAIN w.ku THEN [w |-> w, errno |-> "EADDRNOTAVAIL"]
    ELSE [w |-> KernNotifyAddr([w EXCEPT !.ku = Drop(@, a)], FALSE, a, w.ku[a]),
          errno |-> "OK"]

\* setsockopt(sIpFd, IPV6_JOIN_GROUP): a membership of the socket; the interface
\* reports the group when its first member joins
KernJoin(w, g, owner) ==
    IF w.fault # "none" THEN [w |-> w, errno |-> w.fault]
    ELSE IF [grp |-> g, owner |-> owner] \in w.km THEN [w |-> w, errno |-> "EADDRINUSE"]
    ELSE LET w1 == [w EXCEPT !.km = @ \cup {[grp |-> g, owner |-> owner]}]
         IN  [w |-> IF g \in KernGroups(w) THEN w1 ELSE KernNotifyMAddr(w1, TRUE, g),
              errno |-> "OK"]

\* setsockopt(sIpFd, IPV6_LEAVE_GROUP): the interface reports the leave of its
\* last member
KernLeave(w, g, owner) ==
    IF w.fault # "none" THEN [w |-> w, errno |-> w.fault]
    ELSE IF [grp |-> g, owner |-> owner] \notin w.km
    THEN [w |-> w, errno |-> "EADDRNOTAVAIL"]
    ELSE LET w1 == [w EXCEPT !.km = @ \ {[grp |-> g, owner |-> owner]}]
         IN  [w |-> IF g \in KernGroups(w1) THEN w1 ELSE KernNotifyMAddr(w1, FALSE, g),
              errno |-> "OK"]

\* the interface flags a point-to-point tunnel carries besides IFF_UP
TunFlags == {"IFF_POINTOPOINT", "IFF_MULTICAST"}

\* ifr_flags as the set of the bits that are set
IfFlags(w) == (IF w.kup THEN {"IFF_UP"} ELSE {}) \cup w.kfl

\* ioctl(sIpFd, SIOCGIFFLAGS)
KernGetFlags(w) ==
    IF w.fault # "none" THEN [flags |-> {}, errno |-> w.fault]
    ELSE [flags |-> IfFlags(w), errno |-> "OK"]

\* ioctl(sIpFd, SIOCSIFFLAGS): the kernel announces a changed IFF_UP
KernSetFlags(w, flags) ==
    IF w.fault # "none" THEN [w |-> w, errno |-> w.fault]
    ELSE LET w1 == [w EXCEPT !.kup = "IFF_UP" \in flags, !.kfl = flags \ {"IFF_UP"}]
         IN  [w |-> IF w1.kup = w.kup THEN w1 ELSE KernNotifyLink(w1),
              errno |-> "OK"]

(***************************************************************************)
(* The stack's interface, as netif.cpp consumes it.                        *)
(***************************************************************************)
NETIF_STATE == "OT_CHANGED_THREAD_NETIF_STATE"

otIp6IsEnabled(w) == w.sen

\* a variant of unicastAddressIsSubscribed that finds no address
NeverMutant_unicastAddressIsSubscribed(w, a) == FALSE

\* unicastAddressIsSubscribed (netif.cpp:296-312): a walk of otIp6GetUnicastAddresses
unicastAddressIsSubscribed(w, a) == \E x \in DOMAIN w.su : x = a

Warn(w, fn) == Log(w, [op |-> "otLogWarnPlat", fn |-> fn])


(***************************************************************************)
(* netif.cpp: the kernel configuration side of the bridge.                 *)
(***************************************************************************)
Ioctl(w, req, a, plen, errno) ==
    Log(w, [op |-> "ioctl", req |-> req, addr |-> a, plen |-> plen, errno |-> errno])

\* netif.cpp:373-389, the Linux branch of UpdateUnicast
UpdateUnicastLinux(w, aAddress, aPrefixLength, aIsAdded) ==
    LET Added(r) ==
            IF r.errno = "OK"
            THEN Ioctl(r.w, "SIOCSIFADDR", aAddress, aPrefixLength, r.errno)
            ELSE Die(Ioctl(r.w, "SIOCSIFADDR", aAddress, aPrefixLength, r.errno),
                     "OT_EXIT_ERROR_ERRNO")
        Removed(r) ==
            IF r.errno = "OK"
            THEN Ioctl(r.w, "SIOCDIFADDR", aAddress, aPrefixLength, r.errno)
            ELSE Warn(Ioctl(r.w, "SIOCDIFADDR", aAddress, aPrefixLength, r.errno),
                      "UpdateUnicast")
    IN  IF aIsAdded THEN Added(KernAddrAdd(w, aAddress, aPrefixLength))
        ELSE Removed(KernAddrDel(w, aAddress))

\* netif.cpp:390-420, the BSD branch of UpdateUnicast
UpdateUnicastBSD(w, aAddress, aPrefixLength, aIsAdded) ==
    LET prefixmask == apply_mask(AllOnes, aPrefixLength)
        Done(r) ==
            LET w1 == Ioctl(r.w, IF aIsAdded THEN "SIOCAIFADDR_IN6" ELSE "SIOCDIFADDR_IN6",
                            aAddress, aPrefixLength, r.errno)
                err == IF r.errno = "EALREADY" THEN "OK" ELSE r.errno
            IN  IF err = "OK" THEN w1 ELSE Warn(w1, "UpdateUnicast")
    IN  Done(IF aIsAdded THEN KernAddrAdd(w, aAddress, calculate_prefix_len(prefixmask))
                         ELSE KernAddrDel(w, aAddress))

\* netif.cpp:365-432
UpdateUnicast(w, aAddress, aPrefixLength, aIsAdded) ==
    IF ~(w.ipfd >= 0) THEN Warn(w, "UpdateUnicast")
    ELSE IF IsLinux(w.plat) THEN UpdateUnicastLinux(w, aAddress, aPrefixLength, aIsAdded)
    ELSE UpdateUnicastBSD(w, aAddress, aPrefixLength, aIsAdded)

\* netif.cpp:434-470
UpdateMulticast(w, aAddress, aIsAdded) ==
    LET Done(r) ==
            LET w1 == Log(r.w, [op |-> "setsockopt",
                                req |-> IF aIsAdded THEN "IPV6_JOIN_GROUP"
                                                    ELSE "IPV6_LEAVE_GROUP",
                                addr |-> aAddress, errno |-> r.errno])
                ignored == r.errno # "OK" /\ r.errno = "EINVAL"
                               /\ IN6_IS_ADDR_MC_LINKLOCAL(aAddress)
                err == IF ignored THEN "OK" ELSE r.errno
            IN  IF ignored THEN Warn(w1, "UpdateMulticast")
                ELSE IF err # "OK"
                THEN Die(Warn(w1, "UpdateMulticast"), "OT_EXIT_FAILURE")
                ELSE w1
    IN  IF ~(w.ipfd >= 0) THEN w
        ELSE Done(IF aIsAdded THEN KernJoin(w, aAddress, "bridge")
                              ELSE KernLeave(w, aAddress, "bridge"))

\* a variant of LinkTarget that writes the kernel's own state back
KeepKernelMutant_LinkTarget(if_state, ot_state) == if_state

\* netif.cpp:491-495: the flags written back by SIOCSIFFLAGS are the stack's state
LinkTarget(if_state, ot_state) == ot_state

\* a variant of IfrFlags that passes the IFF_UP bit alone
OnlyUpMutant_IfrFlags(ifr_flags, up) == IF up THEN {"IFF_UP"} ELSE {}

\* netif.cpp:493: ot_state ? (ifr_flags | IFF_UP) : (ifr_flags & ~IFF_UP)
IfrFlags(ifr_flags, up) ==
    IF up THEN ifr_flags \cup {"IFF_UP"} ELSE ifr_flags \ {"IFF_UP"}

\* netif.cpp:472-506
UpdateLink(w) ==
    IF ~(w.ipfd >= 0) THEN w
    ELSE LET g == KernGetFlags(w)
             w1 == Log(w, [op |-> "ioctl", req |-> "SIOCGIFFLAGS", errno |-> g.errno])
         IN  IF g.errno # "OK" THEN Warn(w1, "UpdateLink")
             ELSE LET if_state == "IFF_UP" \in g.flags
                      ot_state == otIp6IsEnabled(w1)
                  IN  IF if_state # ot_state
                      THEN LET ifr_flags == IfrFlags(g.flags, LinkTarget(if_state, ot_state))
                               r == KernSetFlags(w1, ifr_flags)
                               w2 == Log(r.w, [op |-> "ioctl", req |-> "SIOCSIFFLAGS",
                                               up |-> "IFF_UP" \in ifr_flags,
                                               flags |-> ifr_flags,
                                               errno |-> r.errno])
                           IN  IF r.errno = "OK" THEN w2 ELSE Warn(w2, "UpdateLink")
                      ELSE w1

\* a variant of processAddressChange that configures every address as unicast
AllUnicastMutant_processAddressChange(w, aAddress, aPrefixLength, aIsAdded) ==
    UpdateUnicast(w, aAddress, aPrefixLength, aIsAdded)

\* netif.cpp:508-518
processAddressChange(w, aAddress, aPrefixLength, aIsAdded) ==
    IF aAddress[1] = 255
    THEN UpdateMulticast(w, aAddress, aIsAdded)
    ELSE UpdateUnicast(w, aAddress, aPrefixLength, aIsAdded)

\* netif.cpp:522: OT_CHANGED_THREAD_NETIF_STATE | aFlags, the union of two bit masks
NetifStateTest(aFlags) == ({NETIF_STATE} \cup aFlags) # {}

\* netif.cpp:520-526
processStateChange(w, aFlags) ==
    IF NetifStateTest(aFlags) THEN UpdateLink(w) ELSE w


(***************************************************************************)
(* The stack's interface, the calls that change its state.  A call made    *)
(* after the process has exited does not happen.  With `inline` set, the   *)
(* callback a change causes runs before the call returns.                  *)
(***************************************************************************)
AddressCallback(w, a, plen, isAdded) ==
    IF w.inline THEN processAddressChange(w, a, plen, isAdded) ELSE w

otIp6AddUnicastAddress(w, a, plen) ==
    LET error == IF a \in DOMAIN w.su THEN "ALREADY" ELSE "NONE"
        w1 == IF error = "NONE" THEN [w EXCEPT !.su = Put(@, a, plen)] ELSE w
        w2 == Log(w1, [op |-> "otIp6AddUnicastAddress", addr |-> a, plen |-> plen,
                       error |-> error])
    IN  IF ~Running(w) THEN [w |-> w, error |-> "NONE"]
        ELSE [w |-> IF error = "NONE" THEN AddressCallback(w2, a, plen, TRUE) ELSE w2,
              error |-> error]

otIp6RemoveUnicastAddress(w, a) ==
    LET error == IF a \in DOMAIN w.su THEN "NONE" ELSE "NOT_FOUND"
        w1 == IF error = "NONE" THEN [w EXCEPT !.su = Drop(@, a)] ELSE w
        w2 == Log(w1, [op |-> "otIp6RemoveUnicastAddress", addr |-> a, error |-> error])
    IN  IF ~Running(w) THEN [w |-> w, error |-> "NONE"]
        ELSE [w |-> IF error = "NONE" THEN AddressCallback(w2, a, w.su[a], FALSE) ELSE w2,
              error |-> error]

otIp6SubscribeMulticastAddress(w, a) ==
    LET error == IF a \in w.sm THEN "ALREADY" ELSE "NONE"
        w1 == IF error = "NONE" THEN [w EXCEPT !.sm = @ \cup {a}] ELSE w
        w2 == Log(w1, [op |-> "otIp6SubscribeMulticastAddress", addr |-> a,
                       error |-> error])
    IN  IF ~Running(w) THEN [w |-> w, error |-> "NONE"]
        ELSE [w |-> IF error = "NONE" THEN AddressCallback(w2, a, 128, TRUE) ELSE w2,
              error |-> error]

otIp6UnsubscribeMulticastAddress(w, a) ==
    LET error == IF a \in w.sm THEN "NONE" ELSE "NOT_FOUND"
        w1 == IF error = "NONE" THEN [w EXCEPT !.sm = @ \ {a}] ELSE w
        w2 == Log(w1, [op |-> "otIp6UnsubscribeMulticastAddress", addr |-> a,
                       error |-> error])
    IN  IF ~Running(w) THEN [w |-> w, error |-> "NONE"]
        ELSE [w |-> IF error = "NONE" THEN AddressCallback(w2, a, 128, FALSE) ELSE w2,
              error |-> error]

\* a change of the enabled state is announced through the state-changed callback,
\* later unless the stack runs its callbacks inline
otIp6SetEnabled(w, enabled) ==
    LET changed == enabled # w.sen
        w1 == IF ~changed THEN w
              ELSE IF w.inline THEN [w EXCEPT !.sen = enabled]
              ELSE [w EXCEPT !.sen = enabled, !.chg = @ \cup {NETIF_STATE}]
        w2 == Log(w1, [op |-> "otIp6SetEnabled", enabled |-> enabled, error |-> "NONE"])
    IN  IF ~Running(w) THEN [w |-> w, error |-> "NONE"]
        ELSE [w |-> IF changed /\ w.inline THEN processStateChange(w2, {NETIF_STATE})
                    ELSE w2,
              error |-> "NONE"]


(***************************************************************************)
(* netif.cpp: the kernel event side of the bridge, netlink dialect.        *)
(***************************************************************************)
AddressAttrs == {"IFA_ADDRESS", "IFA_LOCAL", "IFA_BROADCAST", "IFA_ANYCAST", "IFA_MULTICAST"}

\* netif.cpp:661-753: one address-carrying attribute; returns the world, the
\* handler's `error` after it, and whether SuccessOrExit left the loop
NetlinkAddrAttr(w, type, addr, prefixlen) ==
    LET Warned(r, ok) == IF ok THEN r.w ELSE Warn(r.w, "processNetifAddrEvent")
        AddedUnicast(r) ==
            [w |-> Warned(r, r.error \in {"NONE", "ALREADY"}), error |-> r.error,
             exit |-> r.error # "NONE"]
        Subscribed(r) ==
            LET ok == r.error \in {"NONE", "ALREADY"}
            IN  [w |-> Warned(r, ok), error |-> IF ok THEN "NONE" ELSE r.error,
                 exit |-> ~ok]
        Removed(r) ==
            LET ok == r.error \in {"NONE", "NOT_FOUND"}
            IN  [w |-> Warned(r, ok), error |-> IF ok THEN "NONE" ELSE r.error,
                 exit |-> FALSE]
    IN  IF type = "RTM_NEWADDR"
        THEN IF ~IsMulticast(addr)
             THEN AddedUnicast(otIp6AddUnicastAddress(w, addr, prefixlen))
             ELSE Subscribed(otIp6SubscribeMulticastAddress(w, addr))
        ELSE IF ~IsMulticast(addr)
             THEN Removed(otIp6RemoveUnicastAddress(w, addr))
             ELSE Removed(otIp6UnsubscribeMulticastAddress(w, addr))

RECURSIVE NetlinkRtaLoop(_, _, _, _)
\* netif.cpp:643-776: the RTA_OK / RTA_NEXT loop and the exit label
NetlinkRtaLoop(w, msg, i, error) ==
    IF i > Len(msg.rta)
    THEN IF error = "NONE" THEN w ELSE Warn(w, "processNetifAddrEvent")
    ELSE LET rta == msg.rta[i]
             Rest(r) == IF r.exit THEN Warn(r.w, "processNetifAddrEvent")
                        ELSE NetlinkRtaLoop(r.w, msg, i + 1, r.error)
         IN  IF rta.rta_type \in AddressAttrs
             THEN IF msg.nlmsg_type \in {"RTM_NEWADDR", "RTM_DELADDR"}
                  THEN Rest(NetlinkAddrAttr(w, msg.nlmsg_type, rta.data,
                                            msg.ifa_prefixlen))
                  ELSE NetlinkRtaLoop(w, msg, i + 1, error)
             ELSE NetlinkRtaLoop(Warn(w, "unexpected address type"), msg, i + 1, error)

\* netif.cpp:629-776
processNetifAddrEventLinux(w, aNetlinkMessage) ==
    IF ~(aNetlinkMessage.ifa_index = w.idx /\ aNetlinkMessage.ifa_family = "AF_INET6")
    THEN w
    ELSE NetlinkRtaLoop(w, aNetlinkMessage, 1, "NONE")

\* a variant of processNetifLinkEvent that applies the link state of any interface
AnyIndexMutant_processNetifLinkEvent(w, aNetlinkMessage) ==
    otIp6SetEnabled(w, aNetlinkMessage.ifi_up).w

\* netif.cpp:778-795
processNetifLinkEvent(w, aNetlinkMessage) ==
    IF ~(aNetlinkMessage.ifi_index = w.idx) THEN w
    ELSE otIp6SetEnabled(w, aNetlinkMessage.ifi_up).w


(***************************************************************************)
(* netif.cpp: the kernel event side of the bridge, routing-socket dialect. *)
(***************************************************************************)
RECURSIVE RtSockaddrWalk(_, _, _)
\* netif.cpp:860-880: the sockaddr array; acc holds addr6 and netmask so far
RtSockaddrWalk(addrs, i, acc) ==
    IF i > Len(addrs) THEN acc
    ELSE LET sa == addrs[i]
             acc1 == IF sa.sa_family = "AF_INET6" /\ sa.rtax = "RTAX_IFA"
                     THEN [acc EXCEPT !.addr6 = [sin6_family |-> "AF_INET6",
                                                 sin6_addr |-> sa.sin6_addr]]
                     ELSE acc
             acc2 == IF sa.sa_family = "AF_INET6" /\ sa.rtax = "RTAX_NETMASK"
                     THEN [acc1 EXCEPT !.netmask = [sin6_family |-> "AF_INET6",
                                                    sin6_addr |-> sa.sin6_addr]]
                     ELSE acc1
         IN  RtSockaddrWalk(addrs, i + 1, acc2)

\* netif.cpp:885-894: the scope octet the kernel embeds is cleared
ClearScope(a) ==
    IF IN6_IS_ADDR_LINKLOCAL(a) THEN SetOctet(a, 4, 0)
    ELSE IF IN6_IS_ADDR_MC_LINKLOCAL(a) THEN SetOctet(a, 4, 0)
    ELSE a

\* a variant of RtNewUnicast that imports link-local addresses like any other
KeepLinkLocalMutant_RtNewUnicast(w, addr, prefixLength, is_link_local) ==
    IF unicastAddressIsSubscribed(w, addr) THEN w
    ELSE LET r == otIp6AddUnicastAddress(w, addr, prefixLength)
         IN  r.w

\* netif.cpp:905-983: RTM_NEWADDR for a unicast address
RtNewUnicast(w, addr, prefixLength, is_link_local) ==
    LET Deleted(r) ==
            IF r.errno # "OK"
            THEN Warn(Ioctl(r.w, "SIOCDIFADDR_IN6", addr, prefixLength, r.errno),
                      "processNetifAddrEvent")
            ELSE Ioctl(r.w, "SIOCDIFADDR_IN6", addr, prefixLength, r.errno)
        Added(r) == IF r.error \in {"NONE", "ALREADY"} THEN r.w
                    ELSE Warn(r.w, "processNetifAddrEvent")
    IN  IF unicastAddressIsSubscribed(w, addr) THEN w
        ELSE IF is_link_local THEN Deleted(KernAddrDel(w, addr))
        ELSE Added(otIp6AddUnicastAddress(w, addr, prefixLength))

\* netif.cpp:882-1049: the address found in the message is applied to the stack
RtApplyAddr(w, rtm_type, addr6, netmask) ==
    LET is_link_local == IN6_IS_ADDR_LINKLOCAL(addr6.sin6_addr)
        addr == ClearScope(addr6.sin6_addr)
        isNew == rtm_type = "RTM_NEWADDR"
                     \/ (HasRtmMAddr(w.plat) /\ rtm_type = "RTM_NEWMADDR")
        isDel == rtm_type = "RTM_DELADDR"
                     \/ (HasRtmMAddr(w.plat) /\ rtm_type = "RTM_DELMADDR")
        Done(r, ok) == IF r.error \in ok THEN r.w ELSE Warn(r.w, "processNetifAddrEvent")
    IN  IF isNew
        THEN IF ~IsMulticast(addr)
             THEN RtNewUnicast(w, addr, calculate_prefix_len(netmask.sin6_addr) % 256,
                               is_link_local)
             ELSE Done(otIp6SubscribeMulticastAddress(w, addr), {"NONE", "ALREADY"})
        ELSE IF isDel
        THEN Done(IF ~IsMulticast(addr) THEN otIp6RemoveUnicastAddress(w, addr)
                  ELSE otIp6UnsubscribeMulticastAddress(w, addr),
                  {"NONE", "NOT_FOUND"})
        ELSE w

\* netif.cpp:817-1052
processNetifAddrEventBSD(w, rtm) ==
    LET isAddr == rtm.rtm_type \in {"RTM_NEWADDR", "RTM_DELADDR"}
        isMAddr == HasRtmMAddr(w.plat) /\ rtm.rtm_type \in {"RTM_NEWMADDR", "RTM_DELMADDR"}
    IN  IF (isAddr \/ isMAddr) /\ rtm.index # w.idx THEN w
        ELSE LET addrs == IF isAddr \/ isMAddr THEN rtm.addrs ELSE << >>
                 found == RtSockaddrWalk(addrs, 1,
                              [addr6 |-> [sin6_family |-> "0", sin6_addr |-> w.junk],
                               netmask |-> [sin6_family |-> "0", sin6_addr |-> w.junk]])
             IN  IF found.addr6.sin6_family = "AF_INET6"
                 THEN RtApplyAddr(w, rtm.rtm_type, found.addr6, found.netmask)
                 ELSE w

\* netif.cpp:1054-1072
processNetifInfoEvent(w, rtm) ==
    IF ~(rtm.index = w.idx) THEN w ELSE UpdateLink(w)

(***************************************************************************)
(* netif.cpp: processNetifEvent, one recv on sNetlinkFd.                   *)
(***************************************************************************)
RECURSIVE NlmsgLoop(_, _, _)
\* netif.cpp:1087-1131, the NLMSG_OK / NLMSG_NEXT loop of the Linux build
NlmsgLoop(w, msgs, i) ==
    IF i > Len(msgs) \/ ~Running(w) THEN w
    ELSE LET msg == msgs[i]
             w1 == CASE msg.nlmsg_type \in {"RTM_NEWADDR", "RTM_DELADDR"} ->
                          processNetifAddrEventLinux(w, msg)
                      [] msg.nlmsg_type \in {"RTM_NEWLINK", "RTM_DELLINK"} ->
                          processNetifLinkEvent(w, msg)
                      [] OTHER -> Warn(w, "processNetifEvent")
         IN  NlmsgLoop(w1, msgs, i + 1)

\* netif.cpp:1091-1131, the one message per recv of the BSD builds
RtmsgDispatch(w, msg) ==
    CASE msg.rtm_type \in {"RTM_NEWADDR", "RTM_DELADDR"} -> processNetifAddrEventBSD(w, msg)
      [] HasRtmMAddr(w.plat) /\ msg.rtm_type \in {"RTM_NEWMADDR", "RTM_DELMADDR"} ->
             processNetifAddrEventBSD(w, msg)
      [] msg.rtm_type = "RTM_IFINFO" -> processNetifInfoEvent(w, msg)
      [] OTHER -> Warn(w, "processNetifEvent")

\* netif.cpp:1076-1135
processNetifEvent(w) ==
    IF w.nlq = << >> THEN Log(w, [op |-> "recv", fd |-> w.nlfd, ok |-> FALSE])
    ELSE LET dgram == Head(w.nlq)
             w1 == Log([w EXCEPT !.nlq = Tail(@)],
                       [op |-> "recv", fd |-> w.nlfd, ok |-> TRUE])
         IN  IF IsLinux(w.plat) THEN NlmsgLoop(w1, dgram, 1)
             ELSE RtmsgDispatch(w1, dgram)


(***************************************************************************)
(* netif.cpp: processMLDEvent, one recvfrom on sMLDMonitorFd.              *)
(***************************************************************************)
\* ntohs of the two octets at 0-based offset off
Ntohs(buffer, off) == buffer[off + 1] * 256 + buffer[off + 2]

\* a variant of MldRecordAction with the two record types exchanged
SwappedMutant_MldRecordAction(mRecordType) ==
    IF mRecordType = kICMPv6MLDv2RecordChangeToExcludeType THEN "subscribe"
    ELSE IF mRecordType = kICMPv6MLDv2RecordChangeToIncludeType THEN "unsubscribe"
    ELSE "none"

\* netif.cpp:1241-1272: what a record of this type does to the stack
MldRecordAction(mRecordType) ==
    IF mRecordType = kICMPv6MLDv2RecordChangeToIncludeType THEN "subscribe"
    ELSE IF mRecordType = kICMPv6MLDv2RecordChangeToExcludeType THEN "unsubscribe"
    ELSE "none"

\* netif.cpp:1234-1274: the record at 0-based offset
MldRecordAt(w, buffer, offset) ==
    LET mRecordType == buffer[offset + 1]
        address == SubSeq(buffer, offset + 5, offset + 20)
        what == MldRecordAction(mRecordType)
        Done(r, ok) == IF r.error \in ok THEN r.w ELSE Warn(r.w, "processMLDEvent")
    IN  IF what = "subscribe"
        THEN Done(otIp6SubscribeMulticastAddress(w, address), {"NONE", "ALREADY"})
        ELSE IF what = "unsubscribe"
        THEN Done(otIp6UnsubscribeMulticastAddress(w, address), {"NONE"})
        ELSE w

RECURSIVE UncheckedMutant_MldRecordLoop(_, _, _, _)
\* a variant of MldRecordLoop that reads a record wherever the offset is inside
\* the datagram, taking the octets after the datagram's end as zero
UncheckedMutant_MldRecordLoop(w, buffer, i, offset) ==
    IF ~(i < Ntohs(buffer, 6) /\ offset < Len(buffer)) THEN w
    ELSE LET padded == buffer \o Zeros(MLDv2RecordSize)
         IN  UncheckedMutant_MldRecordLoop(MldRecordAt(w, padded, offset), buffer, i + 1,
                 offset + MLDv2RecordSize + 16 * Ntohs(padded, offset + 2))

RECURSIVE MldRecordLoop(_, _, _, _)
\* netif.cpp:1230-1276
MldRecordLoop(w, buffer, i, offset) ==
    IF ~(i < Ntohs(buffer, 6) /\ offset < Len(buffer)) THEN w
    ELSE IF Len(buffer) >= MLDv2RecordSize + offset
    THEN MldRecordLoop(MldRecordAt(w, buffer, offset), buffer, i + 1,
                       offset + MLDv2RecordSize + 16 * Ntohs(buffer, offset + 2))
    ELSE MldRecordLoop(w, buffer, i + 1, offset)

\* a variant of MldFromSelf that takes every sender for the tunnel itself
AnyoneMutant_MldFromSelf(w, srcAddr) == TRUE

\* netif.cpp:1210-1225: getifaddrs lists the tunnel's addresses
MldFromSelf(w, srcAddr) == \E a \in DOMAIN w.ku : a = srcAddr

\* netif.cpp:1189-1285
processMLDEvent(w) ==
    IF w.mldq = << >> THEN Log(w, [op |-> "recvfrom", fd |-> w.mldfd, rval |-> -1])
    ELSE LET dgram == Head(w.mldq)
             buffer == dgram.buf
             w1 == Log([w EXCEPT !.mldq = Tail(@)],
                       [op |-> "recvfrom", fd |-> w.mldfd, rval |-> Len(buffer)])
         IN  IF ~(Len(buffer) > 0) THEN w1
             ELSE IF ~(buffer[1] = kICMPv6MLDv2Type /\ Len(buffer) >= MLDv2HeaderSize)
             THEN w1
             ELSE IF ~MldFromSelf(w1, dgram.src) THEN w1
             ELSE MldRecordLoop(w1, buffer, 0, MLDv2HeaderSize)

(***************************************************************************)
(* netif.cpp: the packet shuttle.                                          *)
(***************************************************************************)
Min(a, b) == IF a < b THEN a ELSE b

\* the tun driver's 4-octet address family header: htonl(AF_INET6)
TunAfHeader(p) == << 0, 0, Hi(PF_INET6(p)), Lo(PF_INET6(p)) >>

\* what the kernel puts on the tun fd for a datagram it routes into the tunnel
TunFrame(p, dgram) == IF IsBSD(p) THEN TunAfHeader(p) \o dgram ELSE dgram

\* a variant of PacketHeader that writes Linux's AF_INET6 (10) on every platform
LinuxHeaderMutant_PacketHeader(p) == IF IsBSD(p) THEN << 0, 0, 0, 10 >> ELSE << >>

\* netif.cpp:535-551: the octets processReceive puts before the datagram
PacketHeader(p) ==
    IF IsBSD(p)
    THEN << 0, 0, ShiftLeft8Low(PF_INET6(p)), ShiftLeft0Low(PF_INET6(p)) >>
    ELSE << >>

\* a variant of processReceive that returns at once, the message unreleased,
\* while the tun device is closed
LeakMutant_processReceive(w, aMessage) ==
    LET free == [op |-> "otMessageFree", msg |-> aMessage]
    IN  IF ~(w.tunfd > 0) THEN w
        ELSE IF Len(aMessage) > kMaxIp6Size THEN Warn(Log(w, free), "processReceive")
        ELSE Log(Log(w, [op |-> "write", fd |-> w.tunfd,
                         bytes |-> PacketHeader(w.plat) \o aMessage,
                         rval |-> Len(PacketHeader(w.plat) \o aMessage)]), free)

\* a variant of processReceive that writes without looking at the tun handle
WriteAnywayMutant_processReceive(w, aMessage) ==
    LET free == [op |-> "otMessageFree", msg |-> aMessage]
        packet == PacketHeader(w.plat) \o aMessage
    IN  IF Len(aMessage) > kMaxIp6Size THEN Warn(Log(w, free), "processReceive")
        ELSE IF w.tunfd > 0 /\ w.fault = "none"
        THEN Log(Log(w, [op |-> "write", fd |-> w.tunfd, bytes |-> packet,
                         rval |-> Len(packet)]), free)
        ELSE Warn(Log(Log(w, [op |-> "write", fd |-> w.tunfd, bytes |-> packet,
                              rval |-> -1]), free), "processReceive")

\* netif.cpp:528-573
processReceive(w, aMessage) ==
    LET length == Len(aMessage) % 65536
        max_length == (kMaxIp6Size + 4) - 4
        nread == Min(Len(aMessage), max_length)
        free == [op |-> "otMessageFree", msg |-> aMessage]
    IN  IF ~(w.tunfd > 0) THEN Log(w, free)
        ELSE IF nread # length THEN Warn(Log(w, free), "processReceive")
        ELSE LET packet == PacketHeader(w.plat) \o SubSeq(aMessage, 1, nread)
                 written == IF w.fault = "none" THEN Len(packet)
                            ELSE IF w.fault = "SHORT" THEN Len(packet) - 1
                            ELSE -1
                 w1 == Log(w, [op |-> "write", fd |-> w.tunfd, bytes |-> packet,
                               rval |-> written])
             IN  IF written = Len(packet) THEN Log(w1, free)
                 ELSE Warn(Log(w1, free), "processReceive")

\* a variant of TransmitOffset that skips 4 octets whatever they are
StripAlwaysMutant_TransmitOffset(p, packet, rval) == IF rval >= 4 THEN 4 ELSE 0

\* netif.cpp:591-597: the octets skipped at the head of what was read
TransmitOffset(p, packet, rval) ==
    IF IsBSD(p) /\ rval >= 4 /\ packet[1] = 0 /\ packet[2] = 0 THEN 4 ELSE 0

\* a variant of processTransmit that also releases the message after a send
\* the stack refused
FreeAfterSendMutant_processTransmit(w) ==
    IF w.tunq = << >> \/ w.fault # "none" THEN Warn(w, "processTransmit")
    ELSE LET frame == Head(w.tunq).bytes
             rval == Min(Len(frame), kMaxIp6Size)
             packet == SubSeq(frame, 1, rval)
             body == SubSeq(packet, TransmitOffset(w.plat, packet, rval) + 1, rval)
             w1 == Log([w EXCEPT !.tunq = Tail(@)],
                       [op |-> "read", fd |-> w.tunfd, rval |-> rval])
             w2 == Log(w1, [op |-> "otIp6NewMessage", message |-> "new"])
             error == IF w.otFault = "none" THEN "NONE" ELSE "DROP"
             w3 == Log(w2, [op |-> "otIp6Send", msg |-> body, error |-> error])
         IN  IF error = "NONE" THEN w3
             ELSE Warn(Log(w3, [op |-> "otMessageFree", msg |-> body]), "processTransmit")

\* netif.cpp:575-625
processTransmit(w) ==
    IF w.tunq = << >> \/ w.fault # "none" THEN Warn(w, "processTransmit")
    ELSE LET frame == Head(w.tunq).bytes
             rval == Min(Len(frame), kMaxIp6Size)
             packet == SubSeq(frame, 1, rval)
             w1 == Log([w EXCEPT !.tunq = Tail(@)],
                       [op |-> "read", fd |-> w.tunfd, rval |-> rval])
         IN  IF ~(rval > 0) THEN Warn(w1, "processTransmit")
             ELSE IF w.otFault = "NEW_NULL"
             THEN Warn(Log(w1, [op |-> "otIp6NewMessage", message |-> "NULL"]),
                       "processTransmit")
             ELSE LET offset == TransmitOffset(w.plat, packet, rval)
                      body == SubSeq(packet, offset + 1, rval)
                      w2 == Log(w1, [op |-> "otIp6NewMessage", message |-> "new"])
                  IN  IF w.otFault = "APPEND_NO_BUFS"
                      THEN Warn(Log(w2, [op |-> "otMessageFree", msg |-> << >>]),
                                "processTransmit")
                      ELSE LET error == IF w.otFault = "SEND_DROP" THEN "DROP" ELSE "NONE"
                               w3 == Log(w2, [op |-> "otIp6Send", msg |-> body,
                                              error |-> error])
                           IN  IF error = "NONE" THEN w3
                               ELSE Warn(w3, "processTransmit")

(***************************************************************************)
(* netif.cpp: the event loop entry point.                                  *)
(***************************************************************************)
\* DieNow after close(fd) (netif.cpp:1539-1557)
CloseAndDie(w, fd) == Die(Log(w, [op |-> "close", fd |-> fd]), "OT_EXIT_FAILURE")

\* a variant of Dispatch that serves the event socket before the tun device
EventsFirstMutant_Dispatch(w, aReadFdSet) ==
    LET w1 == IF w.nlfd \in aReadFdSet THEN processNetifEvent(w) ELSE w
        w2 == IF Running(w1) /\ w1.tunfd \in aReadFdSet THEN processTransmit(w1) ELSE w1
        w3 == IF Running(w2) /\ UseMLDMonitor(w2.plat) /\ w2.mldfd \in aReadFdSet
              THEN processMLDEvent(w2) ELSE w2
    IN  w3

\* netif.cpp:1559-1574: the readable descriptors, in the order of the source
Dispatch(w, aReadFdSet) ==
    LET Mld(w2) == IF Running(w2) /\ UseMLDMonitor(w2.plat) /\ w2.mldfd \in aReadFdSet
                   THEN processMLDEvent(w2) ELSE w2
        Events(w1) == Mld(IF Running(w1) /\ w1.nlfd \in aReadFdSet
                          THEN processNetifEvent(w1) ELSE w1)
    IN  Events(IF w.tunfd \in aReadFdSet THEN processTransmit(w) ELSE w)

\* a variant of platformNetifProcess that serves the readable descriptors
\* before it looks at the error set
ReadFirstMutant_platformNetifProcess(w, aReadFdSet, aErrorFdSet) ==
    IF ~(w.idx > 0) THEN w
    ELSE LET w1 == Dispatch(w, aReadFdSet)
         IN  IF ~Running(w1) THEN w1
             ELSE IF w1.tunfd \in aErrorFdSet THEN CloseAndDie(w1, w1.tunfd)
             ELSE IF w1.nlfd \in aErrorFdSet THEN CloseAndDie(w1, w1.nlfd)
             ELSE IF UseMLDMonitor(w1.plat) /\ w1.mldfd \in aErrorFdSet
             THEN CloseAndDie(w1, w1.mldfd)
             ELSE w1

\* netif.cpp:1534-1578
platformNetifProcess(w, aReadFdSet, aErrorFdSet) ==
    IF ~(w.idx > 0) THEN w
    ELSE IF w.tunfd \in aErrorFdSet THEN CloseAndDie(w, w.tunfd)
    ELSE IF w.nlfd \in aErrorFdSet THEN CloseAndDie(w, w.nlfd)
    ELSE IF UseMLDMonitor(w.plat) /\ w.mldfd \in aErrorFdSet THEN CloseAndDie(w, w.mldfd)
    ELSE Dispatch(w, aReadFdSet)


(***************************************************************************)
(* netif.cpp: platformNetifDeinit.                                         *)
(***************************************************************************)
\* the tunnel interface leaves the kernel: with the last close of the tun
\* descriptor on Linux and macOS, with SIOCIFDESTROY on NetBSD and FreeBSD
KernTunnelGone(w) == [w EXCEPT !.ku = NoAddrs, !.km = {}, !.kup = FALSE]

\* netif.cpp:1363-1377: ioctl(sIpFd, SIOCIFDESTROY); the caller ignores the result
destroyTunnel(w) ==
    LET errno == IF w.ipfd < 0 THEN "EBADF"
                 ELSE IF w.fault # "none" THEN w.fault ELSE "OK"
        w1 == Log(w, [op |-> "ioctl", req |-> "SIOCIFDESTROY", errno |-> errno])
    IN  IF errno = "OK" THEN KernTunnelGone(w1) ELSE w1

\* a variant of platformNetifDeinit that closes the descriptors and keeps
\* their handles
KeepHandlesMutant_platformNetifDeinit(w) ==
    LET w1 == IF w.tunfd # -1 THEN Log(w, [op |-> "close", fd |-> w.tunfd]) ELSE w
        w2 == IF w1.ipfd # -1 THEN Log(w1, [op |-> "close", fd |-> w1.ipfd]) ELSE w1
        w3 == IF w2.nlfd # -1 THEN Log(w2, [op |-> "close", fd |-> w2.nlfd]) ELSE w2
    IN  [w3 EXCEPT !.idx = 0]

\* a variant of platformNetifDeinit that closes the descriptors in the reverse
\* of the order platformNetifInit opens them
ReverseOrderMutant_platformNetifDeinit(w) ==
    LET w1 == IF UseMLDMonitor(w.plat) /\ w.mldfd # -1
              THEN [Log(w, [op |-> "close", fd |-> w.mldfd]) EXCEPT !.mldfd = -1]
              ELSE w
        w2 == IF w1.tunfd # -1
              THEN LET c == [Log(w1, [op |-> "close", fd |-> w1.tunfd]) EXCEPT !.tunfd = -1]
                   IN  IF w.plat \in {NetBSD, FreeBSD} THEN destroyTunnel(c)
                       ELSE KernTunnelGone(c)
              ELSE w1
        w3 == IF w2.nlfd # -1
              THEN [Log(w2, [op |-> "close", fd |-> w2.nlfd]) EXCEPT !.nlfd = -1]
              ELSE w2
        w4 == IF w3.ipfd # -1
              THEN [Log(w3, [op |-> "close", fd |-> w3.ipfd]) EXCEPT !.ipfd = -1]
              ELSE w3
    IN  [w4 EXCEPT !.idx = 0]

\* a variant of platformNetifDeinit that leaves the tunnel index as it is
KeepIndexMutant_platformNetifDeinit(w) ==
    LET w1 == IF w.tunfd # -1
              THEN LET c == [Log(w, [op |-> "close", fd |-> w.tunfd]) EXCEPT !.tunfd = -1]
                   IN  IF w.plat \in {NetBSD, FreeBSD} THEN destroyTunnel(c)
                       ELSE KernTunnelGone(c)
              ELSE w
        w2 == IF w1.ipfd # -1
              THEN [Log(w1, [op |-> "close", fd |-> w1.ipfd]) EXCEPT !.ipfd = -1]
              ELSE w1
        w3 == IF w2.nlfd # -1
              THEN [Log(w2, [op |-> "close", fd |-> w2.nlfd]) EXCEPT !.nlfd = -1]
              ELSE w2
    IN  IF UseMLDMonitor(w3.plat) /\ w3.mldfd # -1
        THEN [Log(w3, [op |-> "close", fd |-> w3.mldfd]) EXCEPT !.mldfd = -1]
        ELSE w3

\* netif.cpp:1137-1170
platformNetifDeinit(w) ==
    LET w1 == IF w.tunfd # -1
              THEN LET c == [Log(w, [op |-> "close", fd |-> w.tunfd]) EXCEPT !.tunfd = -1]
                   IN  IF w.plat \in {NetBSD, FreeBSD} THEN destroyTunnel(c)
                       ELSE KernTunnelGone(c)
              ELSE w
        w2 == IF w1.ipfd # -1
              THEN [Log(w1, [op |-> "close", fd |-> w1.ipfd]) EXCEPT !.ipfd = -1]
              ELSE w1
        w3 == IF w2.nlfd # -1
              THEN [Log(w2, [op |-> "close", fd |-> w2.nlfd]) EXCEPT !.nlfd = -1]
              ELSE w2
        w4 == IF UseMLDMonitor(w3.plat) /\ w3.mldfd # -1
              THEN [Log(w3, [op |-> "close", fd |-> w3.mldfd]) EXCEPT !.mldfd = -1]
              ELSE w3
    IN  [w4 EXCEPT !.idx = 0]

(***************************************************************************)
(* The state after platformNetifInit (netif.cpp:1463-1493): the control    *)
(* socket, the event socket, the tun device and (Linux) the MLD socket are *)
(* open in that order, the tunnel has an index, nothing is configured yet. *)
(***************************************************************************)
Inputs(fault, otFault, cause) ==
    [fault |-> fault, otFault |-> otFault, cause |-> cause, junk |-> Zeros(16),
     inline |-> FALSE]

Constructed(plats) ==
    /\ platform \in plats
    /\ sIpFd = 3
    /\ sNetlinkFd = 4
    /\ sTunFd = 5
    /\ sMLDMonitorFd = IF UseMLDMonitor(platform) THEN 6 ELSE -1
    /\ sTunIndex = 7
    /\ exitCode = "running"
    /\ kernUnicast = NoAddrs
    /\ kernMulticast = {}
    /\ kernUp = FALSE
    /\ kernFlags = TunFlags
    /\ otUnicast = NoAddrs
    /\ otMulticast = {}
    /\ otEnabled = FALSE
    /\ otChanged = {}
    /\ netlinkQ = << >>
    /\ mldQ = << >>
    /\ tunQ = << >>
    /\ calls = << >>
    /\ nStack = 0
    /\ nExt = 0

InitOn(plats) == Constructed(plats) /\ step = [act |-> "platformNetifInit"]

IsRunning == exitCode = "running"

(***************************************************************************)
(* Steps of the stack: it changes its own state and calls the callbacks    *)
(* netif.cpp registered (netif.cpp:1484-1486).                             *)
(***************************************************************************)
\* the stack adopts or drops an address and reports it: processAddressChange
StackAddressChange(a, plen, isAdded, fault) ==
    /\ IsRunning
    /\ nStack < MaxStackOps
    /\ IF IsMulticast(a) THEN (a \in otMulticast) = ~isAdded
                         ELSE (a \in DOMAIN otUnicast) = ~isAdded
    /\ LET w0 == World(Inputs(fault, "none", "stack"))
           w1 == IF IsMulticast(a)
                 THEN [w0 EXCEPT !.sm = IF isAdded THEN @ \cup {a} ELSE @ \ {a}]
                 ELSE [w0 EXCEPT !.su = IF isAdded THEN Put(@, a, plen) ELSE Drop(@, a)]
       IN  \E w \in {processAddressChange(w1, a, plen, isAdded)} : Commit(w)
    /\ step' = [act |-> "processAddressChange", addr |-> a, plen |-> plen,
                added |-> isAdded, fault |-> fault]
    /\ nStack' = nStack + 1
    /\ UNCHANGED nExt

\* the stack is enabled or disabled by its user; the change is announced later
StackSetEnabled(enabled) ==
    /\ IsRunning
    /\ nStack < MaxLinkOps
    /\ enabled # otEnabled
    /\ otEnabled' = enabled
    /\ otChanged' = otChanged \cup {NETIF_STATE}
    /\ calls' = << >>
    /\ step' = [act |-> "StackSetEnabled", enabled |-> enabled]
    /\ nStack' = nStack + 1
    /\ UNCHANGED << platform, sTunFd, sIpFd, sNetlinkFd, sMLDMonitorFd, sTunIndex,
                    exitCode, kernUnicast, kernMulticast, kernUp, kernFlags, otUnicast,
                    otMulticast, netlinkQ, mldQ, tunQ, nExt >>

\* something else of the stack changes: a notification without the netif-state bit
StackOtherChange ==
    /\ IsRunning
    /\ nStack < MaxLinkOps
    /\ "OT_CHANGED_THREAD_ROLE" \notin otChanged
    /\ otChanged' = otChanged \cup {"OT_CHANGED_THREAD_ROLE"}
    /\ calls' = << >>
    /\ step' = [act |-> "StackOtherChange"]
    /\ nStack' = nStack + 1
    /\ UNCHANGED << platform, sTunFd, sIpFd, sNetlinkFd, sMLDMonitorFd, sTunIndex,
                    exitCode, kernUnicast, kernMulticast, kernUp, kernFlags, otUnicast,
                    otMulticast, otEnabled, netlinkQ, mldQ, tunQ, nExt >>

\* the stack delivers its pending notification: processStateChange
StackStateChanged(fault) ==
    /\ IsRunning
    /\ otChanged # {}
    /\ LET w0 == [World(Inputs(fault, "none", "stack")) EXCEPT !.chg = {}]
       IN  \E w \in {processStateChange(w0, otChanged)} : Commit(w)
    /\ step' = [act |-> "processStateChange", flags |-> otChanged, fault |-> fault,
                wasUp |-> kernUp]
    /\ UNCHANGED << nStack, nExt >>

\* the stack hands a datagram to its receive callback: processReceive
StackReceive(dgram, fault) ==
    /\ IsRunning
    /\ nStack < MaxFrames
    /\ \E w \in {processReceive(World(Inputs(fault, "none", "stack")), dgram)} : Commit(w)
    /\ step' = [act |-> "processReceive", dgram |-> dgram, fault |-> fault]
    /\ nStack' = nStack + 1
    /\ UNCHANGED nExt

(***************************************************************************)
(* Steps of the kernel that the bridge did not ask for.                    *)
(***************************************************************************)
ExtStep(w, name, a) ==
    /\ \E w1 \in {[w EXCEPT !.calls = << >>]} : Commit(w1)
    /\ step' = [act |-> name, addr |-> a]
    /\ nExt' = nExt + 1
    /\ UNCHANGED nStack

\* an administrator adds a unicast address to the tunnel
ExtAddrAdd(a, plen) ==
    /\ IsRunning
    /\ nExt < MaxExtOps
    /\ a \notin DOMAIN kernUnicast
    /\ ExtStep(KernAddrAdd(World(Inputs("none", "none", "ext")), a, plen).w, "ExtAddrAdd", a)

\* an administrator removes a unicast address from the tunnel
ExtAddrDel(a) ==
    /\ IsRunning
    /\ nExt < MaxExtOps
    /\ a \in DOMAIN kernUnicast
    /\ ExtStep(KernAddrDel(World(Inputs("none", "none", "ext")), a).w, "ExtAddrDel", a)

\* an application joins a group on the tunnel
ExtJoin(g) ==
    /\ IsRunning
    /\ nExt < MaxExtOps
    /\ [grp |-> g, owner |-> "ext"] \notin kernMulticast
    /\ ExtStep(KernJoin(World(Inputs("none", "none", "ext")), g, "ext").w, "ExtJoin", g)

\* an application leaves a group on the tunnel
ExtLeave(g) ==
    /\ IsRunning
    /\ nExt < MaxExtOps
    /\ [grp |-> g, owner |-> "ext"] \in kernMulticast
    /\ ExtStep(KernLeave(World(Inputs("none", "none", "ext")), g, "ext").w, "ExtLeave", g)

\* an administrator brings the tunnel up or down
ExtLink(up) ==
    /\ IsRunning
    /\ nExt < MaxLinkOps
    /\ up # kernUp
    /\ \E w \in {World(Inputs("none", "none", "ext"))} :
           ExtStep(KernSetFlags(w, IfrFlags(IfFlags(w), up)).w, "ExtLink", up)

\* the kernel routes a datagram into the tunnel
KernTunWrite(dgram) ==
    /\ IsRunning
    /\ nExt < MaxFrames
    /\ tunQ' = Append(tunQ, [bytes |-> TunFrame(platform, dgram), dgram |-> dgram])
    /\ calls' = << >>
    /\ step' = [act |-> "KernTunWrite"]
    /\ nExt' = nExt + 1
    /\ UNCHANGED << platform, sTunFd, sIpFd, sNetlinkFd, sMLDMonitorFd, sTunIndex,
                    exitCode, kernUnicast, kernMulticast, kernUp, kernFlags, otUnicast,
                    otMulticast, otEnabled, otChanged, netlinkQ, mldQ, nStack >>

(***************************************************************************)
(* The host loop calls platformNetifProcess with the sets select() filled. *)
(***************************************************************************)
\* the notification at the head of a queue: who caused it ("none" when the queue
\* is empty) and what it is about
NlHead == IF IsLinux(platform) THEN Head(netlinkQ)[1] ELSE Head(netlinkQ)
NlHeadOrg == IF netlinkQ = << >> THEN "none" ELSE NlHead.org
NlHeadAbout == IF netlinkQ = << >> THEN [kind |-> "none"] ELSE NlHead.about
\* the stack has the address that the head of the event queue is about
NlHeadKnown ==
    /\ NlHeadAbout.kind \in {"AddrAdd", "AddrDel", "MAddrAdd", "MAddrDel"}
    /\ NlHeadAbout.addr \in (DOMAIN otUnicast) \cup otMulticast
MldHeadOrg == IF mldQ = << >> THEN "none" ELSE Head(mldQ).org
MldHeadAbout == IF mldQ = << >> THEN [type |-> 0, recs |-> << >>] ELSE Head(mldQ).about
MldHeadSrc == IF mldQ = << >> THEN Unspecified ELSE Head(mldQ).src

NetifProcess(rd, er, fault, otFault) ==
    /\ IsRunning
    /\ \E w \in {platformNetifProcess(World(Inputs(fault, otFault, "bridge")), rd, er)} :
           Commit(w)
    /\ step' = [act |-> "platformNetifProcess", rd |-> rd, er |-> er,
                nl |-> IF sNetlinkFd \in rd /\ er = {} THEN NlHeadOrg ELSE "none",
                nlev |-> IF sNetlinkFd \in rd /\ er = {} THEN NlHeadAbout
                         ELSE [kind |-> "none"],
                nlknown |-> NlHeadKnown,
                mld |-> IF sMLDMonitorFd \in rd /\ er = {} THEN MldHeadOrg ELSE "none",
                mldev |-> IF sMLDMonitorFd \in rd /\ er = {} THEN MldHeadAbout
                          ELSE [type |-> 0, recs |-> << >>],
                mldsrc |-> MldHeadSrc,
                mldbuf |-> IF mldQ = << >> THEN << >> ELSE Head(mldQ).buf,
                tun |-> IF sTunFd \in rd /\ er = {} /\ tunQ # << >>
                        THEN Head(tunQ).dgram ELSE << >>,
                frame |-> IF sTunFd \in rd /\ er = {} /\ tunQ # << >>
                          THEN Head(tunQ).bytes ELSE << >>,
                wasUp |-> kernUp, fault |-> fault, otFault |-> otFault]
    /\ UNCHANGED << nStack, nExt >>

EventFds == {sNetlinkFd} \cup (IF UseMLDMonitor(platform) THEN {sMLDMonitorFd} ELSE {})

(***************************************************************************)
(* Address mirroring: the stack's address changes, the administrator's and *)
(* the applications' changes, and the loop draining the notifications.     *)
(***************************************************************************)
UnicastAddrs == {Gua1, Lla1}
MulticastAddrs == {Mca1}
PrefixLens == {64}

InitAddr == InitOn({Linux, Darwin})

NextAddr ==
    \/ \E a \in UnicastAddrs \cup MulticastAddrs, plen \in PrefixLens :
           StackAddressChange(a, plen, TRUE, "none")
    \/ \E a \in UnicastAddrs \cup MulticastAddrs :
           StackAddressChange(a, IF IsMulticast(a) THEN 128 ELSE otUnicast[a], FALSE, "none")
    \/ \E a \in UnicastAddrs, plen \in PrefixLens : ExtAddrAdd(a, plen)
    \/ \E a \in UnicastAddrs : ExtAddrDel(a)
    \/ \E g \in MulticastAddrs : ExtJoin(g)
    \/ \E g \in MulticastAddrs : ExtLeave(g)
    \/ \E rd \in (SUBSET EventFds) \ {{}} : NetifProcess(rd, {}, "none", "none")

SpecAddr == InitAddr /\ [][NextAddr]_vars

(***************************************************************************)
(* Properties of address mirroring, checked on SpecAddr.                   *)
(***************************************************************************)
\* every notification has been read from the event sockets
Drained == netlinkQ = << >> /\ mldQ = << >>

KernelGroups == {m.grp : m \in kernMulticast}

\* the tunnel's addresses are the stack's addresses
TablesEqual ==
    /\ DOMAIN kernUnicast = DOMAIN otUnicast
    /\ KernelGroups = otMulticast

NotLinkLocal(S) == {a \in S : ~IN6_IS_ADDR_LINKLOCAL(a)}

\* C1: after any finite sequence of address additions and removals made by the
\* stack alone, once every notification has been drained, the kernel's unicast
\* and multicast addresses on the tunnel are exactly the stack's, link-local
\* unicast addresses aside.
C1_StackToKernelConvergence ==
    (IsRunning /\ nStack > 0 /\ nExt = 0 /\ Drained) =>
        /\ NotLinkLocal(DOMAIN kernUnicast) = NotLinkLocal(DOMAIN otUnicast)
        /\ KernelGroups = otMulticast

\* C2: after any finite sequence of address and membership changes made on the
\* kernel side alone, once every notification has been drained, the stack's
\* addresses are exactly the kernel's, and a link-local unicast address added on
\* the kernel side is in neither table.
C2_KernelToStackConvergence ==
    (IsRunning /\ nExt > 0 /\ nStack = 0 /\ Drained) =>
        /\ TablesEqual
        /\ \A a \in (DOMAIN kernUnicast) \cup (DOMAIN otUnicast) :
               ~IN6_IS_ADDR_LINKLOCAL(a)

\* the loop pass recorded in s read only notifications of the bridge's own
\* pushes of stack changes
ReadsOnlyEchoes(s) ==
    /\ s.act = "platformNetifProcess"
    /\ s.nl \in {"stack", "none"}
    /\ s.mld \in {"stack", "none"}
    /\ s.nl = "stack" \/ s.mld = "stack"

\* C3: a notification that the kernel sends for an address change the stack
\* originated never changes the stack's address tables when the bridge reads it,
\* whatever happened to the stack between the change and the read.
C3_NoEcho ==
    [][ReadsOnlyEchoes(step') => (otUnicast' = otUnicast /\ otMulticast' = otMulticast)]_vars

\* the loop pass recorded in s read the kernel's announcement of a link-local
\* unicast address that the stack had not pushed and did not have
ReadsForeignLinkLocalAdd(s) ==
    /\ s.act = "platformNetifProcess"
    /\ s.nlev.kind = "AddrAdd"
    /\ s.nl # "stack"
    /\ ~s.nlknown
    /\ ~IsMulticast(s.nlev.addr)
    /\ IN6_IS_ADDR_LINKLOCAL(s.nlev.addr)

IsAddressRemove(c, a) ==
    c.op = "ioctl" /\ c.req \in {"SIOCDIFADDR", "SIOCDIFADDR_IN6"} /\ c.addr = a

\* C7: when the bridge reads the kernel's announcement of a link-local unicast
\* address that the stack did not originate and does not know, it removes the
\* address from the kernel and does not add it to the stack, in the netlink
\* dialect as in the routing-socket dialect.
C7_LinkLocalRemovedEveryDialect ==
    ReadsForeignLinkLocalAdd(step) =>
        /\ \E i \in 1..Len(calls) : IsAddressRemove(calls[i], step.nlev.addr)
        /\ \A i \in 1..Len(calls) : calls[i].op # "otIp6AddUnicastAddress"

(***************************************************************************)
(* Link mirroring: the stack's user enables and disables it, the           *)
(* administrator sets the tunnel up and down, the stack delivers its       *)
(* state-changed notifications and the loop drains the event socket.       *)
(***************************************************************************)
InitLink == InitOn({Linux, Darwin})

DrainEvents == NetifProcess({sNetlinkFd}, {}, "none", "none")
DeliverStateChanged == StackStateChanged("none")

NextLink ==
    \/ \E enabled \in BOOLEAN : StackSetEnabled(enabled)
    \/ StackOtherChange
    \/ DeliverStateChanged
    \/ \E up \in BOOLEAN : ExtLink(up)
    \/ DrainEvents

SpecLink == InitLink /\ [][NextLink]_vars

\* the host loop calls platformNetifProcess while the event socket is readable,
\* and the stack's tasklet delivers every pending notification
FairSpecLink == SpecLink /\ WF_vars(DrainEvents) /\ WF_vars(DeliverStateChanged)

\* no notification of the kernel is pending and no callback of the stack is due
Quiescent == IsRunning /\ netlinkQ = << >> /\ mldQ = << >> /\ otChanged = {}

\* C4: after any finite sequence of changes made by the stack and on the kernel
\* side, the bridge eventually becomes quiescent and stays so: no update is
\* passed between kernel and stack for ever.
C4_EventuallyQuiescent == <>[]Quiescent

\* C5: whenever every state-changed callback has run and every link notification
\* has been drained, the tunnel's IFF_UP flag equals the stack's enabled flag.
C5_LinkConverges == Quiescent => (kernUp = otEnabled)

\* both sides changed the link, the bridge read the kernel's last announcement,
\* and the link rests up on both sides
C5_Witness ==
    /\ Quiescent
    /\ nStack > 0 /\ nExt > 0
    /\ kernUp /\ otEnabled
    /\ step.act = "platformNetifProcess" /\ step.nlev.kind = "LinkChange"

(***************************************************************************)
(* The MLD monitor (Linux): reports of the tunnel's own kernel and of      *)
(* neighbours arrive on the raw ICMPv6 socket while the stack subscribes   *)
(* and unsubscribes, and the loop reads them.                              *)
(***************************************************************************)
\* a record with n source addresses after its 20 octets
MLDRecordWithSources(type, g, n) ==
    [mRecordType |-> type, mAuxDataLen |-> 0, mNumSources |-> n,
     mMulticastAddress |-> g, nSourcesPresent |-> n]

\* MODE_IS_EXCLUDE (2), CHANGE_TO_INCLUDE (3) and CHANGE_TO_EXCLUDE (4) records
\* of RFC 3810 5.2.12
MldRecordLists ==
    { << MLDRecord(4, Mca1) >>,
      << MLDRecord(3, Mca1) >>,
      << MLDRecordWithSources(4, Mca1, 1), MLDRecord(3, Mca1) >>,
      << MLDRecord(2, Mca1), MLDRecord(4, Mca1) >>,
      << MLDRecord(3, Mca1), MLDRecord(4, Mca1) >> }

\* the reports that arrive: MLDv2 reports of the tunnel's kernel, one of a
\* neighbour, and an MLDv1 report (type 131)
MldReports ==
    {[src |-> Lla1, type |-> kICMPv6MLDv2Type, recs |-> recs] : recs \in MldRecordLists}
        \cup {[src |-> PeerLla, type |-> kICMPv6MLDv2Type, recs |-> << MLDRecord(4, Mca1) >>],
              [src |-> Lla1, type |-> 131, recs |-> << MLDRecord(4, Mca1) >>]}

\* a report reaches the monitor socket
MldArrives(src, type, recs) ==
    /\ IsRunning
    /\ UseMLDMonitor(platform)
    /\ nExt < MaxExtOps
    /\ mldQ' = Append(mldQ, MldDatagram(src, type, Len(recs), recs, "ext"))
    /\ calls' = << >>
    /\ step' = [act |-> "MldArrives"]
    /\ nExt' = nExt + 1
    /\ UNCHANGED << platform, sTunFd, sIpFd, sNetlinkFd, sMLDMonitorFd, sTunIndex,
                    exitCode, kernUnicast, kernMulticast, kernUp, kernFlags, otUnicast,
                    otMulticast, otEnabled, otChanged, netlinkQ, tunQ, nStack >>

InitMld == InitOn({Linux})

\* the stack puts its link-local address on the tunnel and takes it away
MldStackAddrs == {Lla1}

NextMld ==
    \/ \E a \in MldStackAddrs, plen \in PrefixLens : StackAddressChange(a, plen, TRUE, "none")
    \/ \E a \in MldStackAddrs : StackAddressChange(a, otUnicast[a], FALSE, "none")
    \/ \E r \in MldReports : MldArrives(r.src, r.type, r.recs)
    \/ \E rd \in (SUBSET EventFds) \ {{}} : NetifProcess(rd, {}, "none", "none")

SpecMld == InitMld /\ [][NextMld]_vars

\* the loop pass recorded in s read an MLDv2 report sent from one of the tunnel's
\* own addresses
ReadsAcceptedReport(s) ==
    /\ s.act = "platformNetifProcess"
    /\ sMLDMonitorFd \in s.rd
    /\ s.mldev.type = 143
    /\ s.mldev.recs # << >>
    /\ s.mldsrc \in DOMAIN kernUnicast

IsMembershipCall(c) ==
    c.op \in {"otIp6SubscribeMulticastAddress", "otIp6UnsubscribeMulticastAddress"}

\* the membership calls the pass made on the stack, in order
MembershipCalls ==
    LET cs == SelectSeq(calls, IsMembershipCall)
    IN  [i \in 1..Len(cs) |-> [op |-> cs[i].op, addr |-> cs[i].addr]]

\* the calls that the records make when type join subscribes and type leave
\* unsubscribes
CallsFor(recs, join, leave) ==
    LET IsChange(r) == r.mRecordType \in {join, leave}
        rs == SelectSeq(recs, IsChange)
    IN  [i \in 1..Len(rs) |->
            [op |-> IF rs[i].mRecordType = join THEN "otIp6SubscribeMulticastAddress"
                    ELSE "otIp6UnsubscribeMulticastAddress",
             addr |-> rs[i].mMulticastAddress]]

\* C6: for an accepted MLDv2 report, each record of type 3 makes the bridge
\* subscribe the stack to the record's group and each record of type 4 makes
\* it unsubscribe the stack from it.
C6_Type3SubscribesType4Unsubscribes ==
    ReadsAcceptedReport(step) => MembershipCalls = CallsFor(step.mldev.recs, 3, 4)

\* C6 as the code has it: for an accepted MLDv2 report whose records carry no
\* auxiliary data, each record of type 4 (RFC 3810 CHANGE_TO_EXCLUDE_MODE, a
\* join) makes the bridge subscribe the stack to the record's group, each record
\* of type 3 (CHANGE_TO_INCLUDE_MODE, a leave) makes it unsubscribe the stack
\* from it, in the order of the records, and no other record touches the stack.
C6_Type4SubscribesType3Unsubscribes ==
    ReadsAcceptedReport(step) => MembershipCalls = CallsFor(step.mldev.recs, 4, 3)

\* a report with a join record and a leave record was read, and the stack was
\* subscribed and then unsubscribed
C6_Witness ==
    /\ ReadsAcceptedReport(step)
    /\ Len(step.mldev.recs) = 2
    /\ step.mldev.recs[1].mRecordType = 4 /\ step.mldev.recs[1].mNumSources = 1
    /\ step.mldev.recs[2].mRecordType = 3
    /\ \E i, j \in 1..Len(calls) :
           /\ i < j
           /\ calls[i].op = "otIp6SubscribeMulticastAddress" /\ calls[i].error = "NONE"
           /\ calls[j].op = "otIp6UnsubscribeMulticastAddress" /\ calls[j].error = "NONE"

(***************************************************************************)
(* The packet shuttle: the kernel routes datagrams into the tunnel, the    *)
(* stack hands datagrams to its receive callback, and the loop reads the   *)
(* tun device.                                                             *)
(***************************************************************************)
\* an IPv6 datagram of n octets: version 6 in the first octet, then a pattern
Datagram(n) == [i \in 1..n |-> IF i = 1 THEN 96 ELSE i % 251]

\* header only, the IPv6 minimum MTU, and the sizes around kMaxIp6Size
KernelDatagrams == {Datagram(n) : n \in {40, 1280, kMaxIp6Size - 4, kMaxIp6Size}}
StackDatagrams == {Datagram(n) : n \in {40, kMaxIp6Size, kMaxIp6Size + 1}}
StackFaults == {"none", "NEW_NULL", "APPEND_NO_BUFS", "SEND_DROP"}
WriteFaults == {"none", "EIO"}

InitPkt == InitOn({Linux, Darwin, FreeBSD, NetBSD})

NextPkt ==
    \/ \E dgram \in KernelDatagrams : KernTunWrite(dgram)
    \/ \E dgram \in StackDatagrams, fault \in WriteFaults : StackReceive(dgram, fault)
    \/ \E otFault \in StackFaults : NetifProcess({sTunFd}, {}, "none", otFault)

SpecPkt == InitPkt /\ [][NextPkt]_vars

\* the loop pass recorded in s read a datagram from the tun device and the stack
\* had a buffer for it and accepted it
ReadsDatagram(s) ==
    /\ s.act = "platformNetifProcess"
    /\ sTunFd \in s.rd
    /\ s.tun # << >>
    /\ s.fault = "none" /\ s.otFault = "none"

IsSend(c) == c.op = "otIp6Send"
IsWrite(c) == c.op = "write"
SentMessages == LET cs == SelectSeq(calls, IsSend) IN [i \in 1..Len(cs) |-> cs[i].msg]
WrittenBytes == LET cs == SelectSeq(calls, IsWrite) IN [i \in 1..Len(cs) |-> cs[i].bytes]

\* C8: each valid IPv6 datagram that the kernel writes into the tunnel reaches
\* the stack in exactly one otIp6Send whose payload is the datagram, octet for
\* octet, without the 4-octet address family header of the af-prefix platforms.
C8_InboundRoundTrip == ReadsDatagram(step) => SentMessages = << step.tun >>

\* C9: on an af-prefix platform the octets written to the tun device for a
\* datagram of the stack are 0x00 0x00 0x00 0x0A followed by the datagram; on a
\* platform without the prefix they are the datagram alone.
C9_PrefixIs0x0A ==
    step.act = "processReceive" =>
        \A i \in 1..Len(WrittenBytes) :
            WrittenBytes[i] = (IF IsBSD(platform) THEN << 0, 0, 0, 10 >> ELSE << >>)
                                  \o step.dgram

\* C9 as the code has it: for a datagram of the stack of at most kMaxIp6Size
\* octets the receive callback makes one write to the tun device, of 0x00 0x00
\* 0x00 and the platform's PF_INET6 (30 on Darwin, 28 on FreeBSD, 24 on NetBSD)
\* followed by the datagram on an af-prefix platform, and of the datagram alone
\* on Linux; a longer datagram is not written.
C9_PrefixIsPlatformFamily ==
    step.act = "processReceive" =>
        WrittenBytes =
            IF Len(step.dgram) <= kMaxIp6Size
            THEN << (IF platform = Darwin THEN << 0, 0, 0, 30 >>
                     ELSE IF platform = FreeBSD THEN << 0, 0, 0, 28 >>
                     ELSE IF platform = NetBSD THEN << 0, 0, 0, 24 >>
                     ELSE << >>) \o step.dgram >>
            ELSE << >>

\* a datagram of kMaxIp6Size octets was written whole behind the prefix
C9_Witness ==
    /\ step.act = "processReceive"
    /\ IsBSD(platform)
    /\ Len(step.dgram) = kMaxIp6Size
    /\ \E i \in 1..Len(calls) :
           /\ calls[i].op = "write"
           /\ calls[i].rval = Len(calls[i].bytes)
           /\ Len(calls[i].bytes) = kMaxIp6Size + 4

(***************************************************************************)
(* Failing system calls: the stack's callbacks run while a call of the     *)
(* control socket or the write to the tun device fails.                    *)
(***************************************************************************)
Errnos == {"none", "EIO", "EINVAL"}
FaultAddrs == {Gua1, Mca1}
FaultDatagrams == {Datagram(40)}

InitFault == InitOn({Linux, Darwin})

NextFault ==
    \/ \E a \in FaultAddrs, plen \in PrefixLens, fault \in Errnos :
           StackAddressChange(a, plen, TRUE, fault)
    \/ \E a \in FaultAddrs, fault \in Errnos :
           StackAddressChange(a, IF IsMulticast(a) THEN 128 ELSE otUnicast[a], FALSE, fault)
    \/ \E enabled \in BOOLEAN : StackSetEnabled(enabled)
    \/ \E fault \in Errnos : StackStateChanged(fault)
    \/ \E dgram \in FaultDatagrams, fault \in Errnos : StackReceive(dgram, fault)
    \/ \E rd \in (SUBSET EventFds) \ {{}} : NetifProcess(rd, {}, "none", "none")

SpecFault == InitFault /\ [][NextFault]_vars

\* a call of the step failed: a configuration call with an errno, or a short
\* write to the tun device
IsFailedCall(c) ==
    \/ c.op \in {"ioctl", "setsockopt"} /\ c.errno # "OK"
    \/ c.op = "write" /\ c.rval # Len(c.bytes)

\* C10: a callback of the stack in which a kernel configuration call or the tun
\* write fails logs a warning and returns; the process keeps running.
C10_FailuresNeverTerminate ==
    (/\ step.act \in {"processAddressChange", "processStateChange", "processReceive"}
     /\ \E i \in 1..Len(calls) : IsFailedCall(calls[i]))
        => /\ IsRunning
           /\ \E i \in 1..Len(calls) : calls[i].op = "otLogWarnPlat"

(***************************************************************************)
(* Properties of the link handlers, checked on SpecLink.                   *)
(***************************************************************************)
\* the loop pass recorded in s read a link notification about the tunnel
ReadsLinkEvent(s) ==
    /\ s.act = "platformNetifProcess"
    /\ s.nlev.kind = "LinkChange"

IsSetFlags(c) == c.op = "ioctl" /\ c.req = "SIOCSIFFLAGS"
IsGetFlags(c) == c.op = "ioctl" /\ c.req = "SIOCGIFFLAGS"
IsSetEnabled(c) == c.op = "otIp6SetEnabled"

\* C11: whenever the bridge reads a link notification about the tunnel, in the
\* netlink dialect as in the routing-socket dialect, it calls otIp6SetEnabled
\* with the kernel's IFF_UP value (the notification's or the interface's
\* current one) and does not write the interface flags.
C11_LinkEventSetsStackEnabled ==
    ReadsLinkEvent(step) =>
        /\ \E i \in 1..Len(calls) :
               IsSetEnabled(calls[i]) /\ calls[i].enabled \in {step.nlev.up, kernUp}
        /\ \A i \in 1..Len(calls) : ~IsSetFlags(calls[i])

\* C12: a state-changed callback whose flags lack OT_CHANGED_THREAD_NETIF_STATE
\* makes no SIOCGIFFLAGS and no SIOCSIFFLAGS call.
C12_OnlyNetifStateReconciles ==
    (step.act = "processStateChange" /\ NETIF_STATE \notin step.flags) =>
        \A i \in 1..Len(calls) : ~IsGetFlags(calls[i]) /\ ~IsSetFlags(calls[i])

\* the step ran UpdateLink: a state-changed callback, or a routing-socket
\* pass that read a link notification
UpdateLinkRan ==
    \/ step.act = "processStateChange"
    \/ ReadsLinkEvent(step) /\ IsBSD(platform)

SetFlagsCalls == SelectSeq(calls, IsSetFlags)

\* C13: link reconciliation makes a SIOCSIFFLAGS call only when the kernel's
\* IFF_UP differed from the stack's enabled state, and then exactly one, with
\* IFF_UP equal to the stack's state and the other flag bits as they were;
\* afterwards the kernel's IFF_UP equals the stack's state, so a second
\* callback with the stack and the kernel left alone makes none.
C13_SetFlagsOnlyOnDifference ==
    UpdateLinkRan =>
        IF step.wasUp # otEnabled
        THEN /\ Len(SetFlagsCalls) = 1
             /\ SetFlagsCalls[1].up = otEnabled
             /\ SetFlagsCalls[1].flags \ {"IFF_UP"} = TunFlags
             /\ kernUp = otEnabled
             /\ kernFlags = TunFlags
        ELSE SetFlagsCalls = << >>

\* the stack was enabled while IFF_UP was clear, and the callback set IFF_UP
C13_Witness ==
    /\ step.act = "processStateChange"
    /\ ~step.wasUp /\ otEnabled
    /\ Len(SetFlagsCalls) = 1
    /\ SetFlagsCalls[1].up

(***************************************************************************)
(* The unicast scenarios: one address, added by the stack or on the kernel *)
(* side, with the prefix lengths at and between the octet boundaries.      *)
(***************************************************************************)
ScenAddrs == {Gua1, Gua2}
ScenPrefixLens == {0, 7, 128}
MaxScenOps == 2

\* rtnetlink's address notification for an address that has a peer: IFA_LOCAL
\* carries the interface's address and IFA_ADDRESS the peer's
NlAddrPeerMsg(type, idx, a, peer, plen, org) ==
    [NlAddrMsg(type, idx, a, plen, org) EXCEPT
        !.rta = << [rta_type |-> "IFA_LOCAL", data |-> a],
                   [rta_type |-> "IFA_ADDRESS", data |-> peer],
                   [rta_type |-> "IFA_CACHEINFO", data |-> Unspecified] >>]

\* an administrator adds a unicast address with a peer address to the tunnel
\* (ip -6 addr add A peer P dev tun): the interface gets A alone
ExtAddrAddPeer(a, peer, plen) ==
    /\ IsRunning
    /\ IsLinux(platform)
    /\ nExt < MaxExtOps
    /\ a \notin DOMAIN kernUnicast
    /\ \E w \in {World(Inputs("none", "none", "ext"))} :
           ExtStep([w EXCEPT !.ku = Put(@, a, plen),
                             !.nlq = Append(@, << NlAddrPeerMsg("RTM_NEWADDR", w.idx, a,
                                                                peer, plen, "ext") >>)],
                   "ExtAddrAddPeer", a)

InitScen == InitOn({Linux, Darwin})

NextScen ==
    \/ \E a \in ScenAddrs, plen \in ScenPrefixLens :
           nStack < MaxScenOps /\ StackAddressChange(a, plen, TRUE, "none")
    \/ \E a \in ScenAddrs :
           nStack < MaxScenOps /\ StackAddressChange(a, otUnicast[a], FALSE, "none")
    \/ \E a \in ScenAddrs, plen \in ScenPrefixLens : ExtAddrAdd(a, plen)
    \/ \E plen \in ScenPrefixLens : ExtAddrAddPeer(Gua1, Gua2, plen)
    \/ \E a \in ScenAddrs : ExtAddrDel(a)
    \/ NetifProcess({sNetlinkFd}, {}, "none", "none")

SpecScen == InitScen /\ [][NextScen]_vars

(***************************************************************************)
(* Properties of the unicast scenarios, checked on SpecScen.               *)
(***************************************************************************)
IsKernelCall(c) == c.op \in {"ioctl", "setsockopt"}
IsAddrAddCall(c) == c.op = "ioctl" /\ c.req \in {"SIOCSIFADDR", "SIOCAIFADDR_IN6"}
IsStackCall(c) ==
    c.op \in {"otIp6AddUnicastAddress", "otIp6RemoveUnicastAddress",
              "otIp6SubscribeMulticastAddress", "otIp6UnsubscribeMulticastAddress",
              "otIp6SetEnabled"}
IsAddUnicast(c) == c.op = "otIp6AddUnicastAddress"

\* the stack announced a new unicast address and processAddressChange ran
StackAddedUnicast(s) ==
    /\ s.act = "processAddressChange"
    /\ s.added
    /\ ~IsMulticast(s.addr)

\* exactly one address-add call, for the announced address and prefix length,
\* and the tunnel has the address with that prefix length when the call succeeds
OneKernelAddrAdd ==
    LET adds == SelectSeq(calls, IsAddrAddCall)
    IN  /\ Len(adds) = 1
        /\ adds[1].addr = step.addr
        /\ adds[1].plen = step.plen
        /\ adds[1].errno = "OK" =>
               /\ step.addr \in DOMAIN kernUnicast
               /\ kernUnicast[step.addr] = step.plen

\* the loop pass recorded in s read the kernel's AddrAdd notification of an
\* address the stack had announced and still has
ReadsUnicastEcho(s) ==
    /\ s.act = "platformNetifProcess"
    /\ s.nl = "stack"
    /\ s.nlev.kind = "AddrAdd"
    /\ ~IsMulticast(s.nlev.addr)
    /\ s.nlknown

\* C14 as stated: the stack's address-change(added) for a unicast address
\* leads to exactly one kernel address-add for that address and prefix length,
\* and reading the notification that follows makes no stack call and no
\* kernel call.
C14_EchoMakesNoStackCall ==
    /\ StackAddedUnicast(step) => OneKernelAddrAdd
    /\ ReadsUnicastEcho(step) =>
           \A i \in 1..Len(calls) : ~IsStackCall(calls[i]) /\ ~IsKernelCall(calls[i])

\* C14 as the code has it: exactly one kernel address-add for that address and
\* prefix length; reading the notification that follows makes no kernel call
\* and leaves the stack's addresses as they were: the routing-socket dialect
\* makes no stack call, the netlink dialect makes one otIp6AddUnicastAddress
\* call for that address, which the stack answers with Already.
C14_EchoAbsorbed ==
    /\ StackAddedUnicast(step) => OneKernelAddrAdd
    /\ ReadsUnicastEcho(step) =>
           LET stackCalls == SelectSeq(calls, IsStackCall)
           IN  /\ \A i \in 1..Len(calls) : ~IsKernelCall(calls[i])
               /\ step.nlev.addr \in DOMAIN otUnicast
               /\ IF IsLinux(platform)
                  THEN /\ Len(stackCalls) = 1
                       /\ IsAddUnicast(stackCalls[1])
                       /\ stackCalls[1].addr = step.nlev.addr
                       /\ stackCalls[1].error = "ALREADY"
                  ELSE stackCalls = << >>

\* the netlink dialect read the echo of the stack's own address
C14_Witness ==
    /\ ReadsUnicastEcho(step)
    /\ step.nlev.plen = 7
    /\ \E i \in 1..Len(calls) : IsAddUnicast(calls[i]) /\ calls[i].error = "ALREADY"

\* the loop pass recorded in s read the AddrAdd notification of a unicast
\* address, not link-local, that was added on the kernel side and that the
\* stack does not have
ReadsExternalUnicastAdd(s) ==
    /\ s.act = "platformNetifProcess"
    /\ s.nl = "ext"
    /\ s.nlev.kind = "AddrAdd"
    /\ ~IsMulticast(s.nlev.addr)
    /\ ~IN6_IS_ADDR_LINKLOCAL(s.nlev.addr)
    /\ ~s.nlknown

\* C15: reading the notification of a non-link-local unicast address added to
\* the tunnel on the kernel side makes exactly one otIp6AddUnicastAddress call,
\* for that address and its prefix length, whatever address attributes the
\* notification carries.
C15_ExternalAddCallsStackOnce ==
    ReadsExternalUnicastAdd(step) =>
        LET adds == SelectSeq(calls, IsAddUnicast)
        IN  /\ Len(adds) = 1
            /\ adds[1].addr = step.nlev.addr
            /\ adds[1].plen = step.nlev.plen

(***************************************************************************)
(* calculate_prefix_len on its own: the input is a netmask of n one-bits   *)
(* followed by zero-bits, for every n the 16 octets allow.                 *)
(***************************************************************************)
AddrBits == 128

\* octet i of the netmask with n leading one-bits
PrefixMaskOctet(n, i) ==
    IF n >= 8 * i THEN 255
    ELSE IF n <= 8 * (i - 1) THEN 0
    ELSE 256 - Pow2(8 - (n - 8 * (i - 1)))

PrefixMask(n) == [i \in Octets |-> PrefixMaskOctet(n, i)]

InitPrefix ==
    /\ Constructed({Darwin, FreeBSD, NetBSD})
    /\ step \in {[act |-> "netmask", n |-> n, sin6_addr |-> PrefixMask(n)] : n \in 0..AddrBits}

\* the routing-socket handler takes the prefix length of the netmask it was given
CalculatePrefixLen ==
    /\ step.act = "netmask"
    /\ step' = [act |-> "calculate_prefix_len", n |-> step.n, sin6_addr |-> step.sin6_addr,
                result |-> calculate_prefix_len(step.sin6_addr)]
    /\ UNCHANGED << platform, sTunFd, sIpFd, sNetlinkFd, sMLDMonitorFd, sTunIndex,
                    exitCode, kernUnicast, kernMulticast, kernUp, kernFlags, otUnicast,
                    otMulticast, otEnabled, otChanged, netlinkQ, mldQ, tunQ, calls,
                    nStack, nExt >>

SpecPrefix == InitPrefix /\ [][CalculatePrefixLen]_vars

\* C16: for a netmask of N one-bits followed by 128 - N zero-bits,
\* calculate_prefix_len returns N, for every N in 0..128.
C16_PrefixLenOfMask ==
    step.act = "calculate_prefix_len" => step.result = step.n

\* a mask that ends inside an octet, and the full mask
C16_Witness ==
    /\ step.act = "calculate_prefix_len"
    /\ step.n \in {61, 128}
    /\ step.result = step.n
    /\ step.sin6_addr[8] \in {248, 255}

(***************************************************************************)
(* The event loop: select() hands platformNetifProcess any read set and    *)
(* any error set over the three descriptors, while datagrams and           *)
(* notifications wait on them.                                             *)
(***************************************************************************)
LoopAddrs == {Lla1, Gua1}
LoopFds == {sTunFd, sNetlinkFd}
               \cup (IF UseMLDMonitor(platform) THEN {sMLDMonitorFd} ELSE {})

InitLoop == InitOn({Linux, Darwin})

NextLoop ==
    \/ \E a \in LoopAddrs : nStack < MaxScenOps /\ StackAddressChange(a, 64, TRUE, "none")
    \/ ExtJoin(Mca1)
    \/ KernTunWrite(Datagram(40))
    \/ \E rd \in SUBSET LoopFds, er \in SUBSET LoopFds :
           rd \cup er # {} /\ NetifProcess(rd, er, "none", "none")

SpecLoop == InitLoop /\ [][NextLoop]_vars

(***************************************************************************)
(* Properties of the event loop, checked on SpecLoop.                      *)
(***************************************************************************)
\* the descriptor whose error the loop acts on: the first of tun, event
\* socket and MLD socket that is in the error set
FirstInError(er) ==
    IF sTunFd \in er THEN sTunFd
    ELSE IF sNetlinkFd \in er THEN sNetlinkFd
    ELSE sMLDMonitorFd

\* C17: when the tun, event or MLD descriptor is in the error set, the pass
\* closes that descriptor and the process exits; no read, recv or recvfrom is
\* made and no handler runs, whatever the read set holds.
C17_ErrorSetFirst ==
    (step.act = "platformNetifProcess" /\ step.er \cap LoopFds # {}) =>
        /\ exitCode = "OT_EXIT_FAILURE"
        /\ calls = << [op |-> "close", fd |-> FirstInError(step.er)] >>

\* a descriptor with a datagram waiting was readable and in the error set
C17_Witness ==
    /\ step.act = "platformNetifProcess"
    /\ sNetlinkFd \in step.er /\ sNetlinkFd \in step.rd /\ sTunFd \in step.rd
    /\ netlinkQ # << >> /\ tunQ # << >>
    /\ exitCode = "OT_EXIT_FAILURE"
    /\ calls = << [op |-> "close", fd |-> sNetlinkFd] >>

\* the handler a logged call belongs to: 1 processTransmit, 2 processNetifEvent,
\* 3 processMLDEvent
HandlerOf(c) ==
    IF c.op \in {"read", "otIp6NewMessage", "otIp6Send", "otMessageFree"} THEN 1
    ELSE IF c.op = "otLogWarnPlat" /\ c.fn = "processTransmit" THEN 1
    ELSE IF c.op = "recvfrom" THEN 3
    ELSE IF c.op = "otLogWarnPlat" /\ c.fn = "processMLDEvent" THEN 3
    ELSE IF /\ UseMLDMonitor(platform)
            /\ c.op \in {"otIp6SubscribeMulticastAddress", "otIp6UnsubscribeMulticastAddress"}
    THEN 3
    ELSE 2

HandlersRun == {HandlerOf(calls[i]) : i \in 1..Len(calls)}

\* C18: in one pass the handlers of the readable descriptors run in the order
\* processTransmit, processNetifEvent, processMLDEvent, each to its end before
\* the next begins: every call of an earlier handler precedes every call of a
\* later one, and a handler runs exactly when its descriptor is readable.
C18_HandlersInFixedOrder ==
    (step.act = "platformNetifProcess" /\ step.er \cap LoopFds = {}) =>
        /\ \A i, j \in 1..Len(calls) : i < j => HandlerOf(calls[i]) <= HandlerOf(calls[j])
        /\ (1 \in HandlersRun) = (sTunFd \in step.rd)
        /\ (2 \in HandlersRun) = (sNetlinkFd \in step.rd)
        /\ (3 \in HandlersRun) = (UseMLDMonitor(platform) /\ sMLDMonitorFd \in step.rd)

\* all three descriptors were readable and each handler called the stack
C18_Witness ==
    /\ step.act = "platformNetifProcess"
    /\ step.rd = {sTunFd, sNetlinkFd, sMLDMonitorFd}
    /\ \E i, j, k \in 1..Len(calls) :
           /\ i < j /\ j < k
           /\ calls[i].op = "otIp6Send"
           /\ calls[j].op = "otIp6AddUnicastAddress"
           /\ calls[k].op = "otIp6SubscribeMulticastAddress"

(***************************************************************************)
(* Teardown: platformNetifDeinit called, once or again, on an instance     *)
(* whose construction got anywhere: every handle is -1 or an open          *)
(* descriptor, the tunnel index is 0 or set.                               *)
(***************************************************************************)
\* the handles that hold a descriptor
OpenHandles ==
    {fd \in {sTunFd, sIpFd, sNetlinkFd, sMLDMonitorFd} : fd # -1}

InitDeinit ==
    /\ platform \in {Linux, Darwin, FreeBSD, NetBSD}
    /\ sIpFd \in {-1, 3}
    /\ sNetlinkFd \in {-1, 4}
    /\ sTunFd \in {-1, 5}
    /\ sMLDMonitorFd \in (IF UseMLDMonitor(platform) THEN {-1, 6} ELSE {-1})
    /\ sTunIndex \in {0, 7}
    /\ exitCode = "running"
    /\ kernUnicast = NoAddrs
    /\ kernMulticast = {}
    /\ kernUp = FALSE
    /\ kernFlags = TunFlags
    /\ otUnicast = NoAddrs
    /\ otMulticast = {}
    /\ otEnabled = FALSE
    /\ otChanged = {}
    /\ netlinkQ = << >>
    /\ mldQ = << >>
    /\ tunQ = << >>
    /\ calls = << >>
    /\ step = [act |-> "none"]
    /\ nStack = 0
    /\ nExt = 0

\* the host calls platformNetifDeinit
NetifDeinit ==
    /\ IsRunning
    /\ \E w \in {platformNetifDeinit(World(Inputs("none", "none", "bridge")))} : Commit(w)
    /\ step' = [act |-> "platformNetifDeinit", open |-> OpenHandles, prev |-> step.act,
                prevOpen |-> IF step.act = "platformNetifDeinit" THEN step.open ELSE {}]
    /\ UNCHANGED << nStack, nExt >>

SpecDeinit == InitDeinit /\ [][NetifDeinit]_vars

IsClose(c) == c.op = "close"
CloseCalls == SelectSeq(calls, IsClose)

\* C19: from any state (never initialized, any subset of the descriptors open,
\* already deinitialized) platformNetifDeinit closes each descriptor that a
\* handle holds exactly once, closes nothing for a handle that is -1, and
\* leaves every handle at -1 and the tunnel index at 0; called again, it
\* closes nothing.
C19_DeinitIdempotent ==
    step.act = "platformNetifDeinit" =>
        /\ Len(CloseCalls) = Cardinality(step.open)
        /\ \A fd \in step.open : \E i \in 1..Len(CloseCalls) : CloseCalls[i].fd = fd
        /\ \A i \in 1..Len(CloseCalls) : CloseCalls[i].fd \in step.open /\ CloseCalls[i].fd # -1
        /\ sTunFd = -1 /\ sIpFd = -1 /\ sNetlinkFd = -1 /\ sMLDMonitorFd = -1
        /\ sTunIndex = 0
        /\ step.prev = "platformNetifDeinit" => CloseCalls = << >>

\* a second call after a call that closed the descriptors of a partially
\* constructed instance
C19_Witness ==
    /\ step.act = "platformNetifDeinit"
    /\ step.prev = "platformNetifDeinit"
    /\ step.prevOpen = {3, 4}
    /\ step.open = {}
    /\ CloseCalls = << >>

(***************************************************************************)
(* The outbound path on its own: the stack hands datagrams to the receive  *)
(* callback while the tun device is open and after platformNetifDeinit     *)
(* closed it; writes succeed, fail, or come back short.                    *)
(***************************************************************************)
OutFaults == {"none", "EIO", "SHORT"}

InitOut == InitOn({Linux, Darwin, FreeBSD, NetBSD})

NextOut ==
    \/ \E dgram \in StackDatagrams, fault \in OutFaults : StackReceive(dgram, fault)
    \/ NetifDeinit

SpecOut == InitOut /\ [][NextOut]_vars

IsFree(c) == c.op = "otMessageFree"
FreeCalls == SelectSeq(calls, IsFree)
WriteCalls == SelectSeq(calls, IsWrite)

\* C20: every run of the receive callback releases the stack's message exactly
\* once, whether the tun device is closed, the datagram is longer than the
\* 1536-octet buffer, the write fails or is short, or the write succeeds; a
\* datagram that does not fit, and a datagram received while the tun device is
\* closed, reach no write.
C20_MessageFreedOnce ==
    step.act = "processReceive" =>
        /\ Len(FreeCalls) = 1
        /\ FreeCalls[1].msg = step.dgram
        /\ Len(step.dgram) > kMaxIp6Size => WriteCalls = << >>
        /\ ~(sTunFd > 0) => WriteCalls = << >>
        /\ Len(WriteCalls) <= 1

\* a datagram one octet longer than the buffer was released and not written
C20_Witness ==
    /\ step.act = "processReceive"
    /\ sTunFd > 0
    /\ Len(step.dgram) = kMaxIp6Size + 1
    /\ Len(FreeCalls) = 1
    /\ WriteCalls = << >>

(***************************************************************************)
(* Ownership of the messages processTransmit allocates, checked on SpecPkt.*)
(***************************************************************************)
IsNewMessage(c) == c.op = "otIp6NewMessage" /\ c.message = "new"
IsNullMessage(c) == c.op = "otIp6NewMessage" /\ c.message = "NULL"
NewMessages == SelectSeq(calls, IsNewMessage)
SendCalls == SelectSeq(calls, IsSend)

\* C21: in a pass that reads the tun device, a message that otIp6NewMessage
\* returned is either passed to otIp6Send once and not released by the
\* handler, or released by the handler once and not sent; when
\* otIp6NewMessage returns NULL nothing is sent and nothing is released.
C21_MessageSentOrFreedOnce ==
    (step.act = "platformNetifProcess" /\ sTunFd \in step.rd) =>
        /\ Len(NewMessages) <= 1
        /\ Len(SendCalls) + Len(FreeCalls) = Len(NewMessages)
        /\ step.otFault = "APPEND_NO_BUFS" /\ NewMessages # << >> =>
               Len(FreeCalls) = 1 /\ SendCalls = << >>
        /\ (\E i \in 1..Len(calls) : IsNullMessage(calls[i])) =>
               SendCalls = << >> /\ FreeCalls = << >>

\* the stack refused the message it was sent: it owns the message all the same
C21_Witness ==
    /\ step.act = "platformNetifProcess"
    /\ sTunFd \in step.rd
    /\ Len(NewMessages) = 1
    /\ Len(SendCalls) = 1 /\ SendCalls[1].error = "DROP"
    /\ FreeCalls = << >>

(***************************************************************************)
(* The MLD monitor's parser: datagrams arrive as octets, whole or cut      *)
(* short, with a header record count and per-record source counts that     *)
(* need not match what follows.                                            *)
(***************************************************************************)
\* a record that announces more sources than follow it
MLDRecordShortSources(type, g, announced, present) ==
    [mRecordType |-> type, mAuxDataLen |-> 0, mNumSources |-> announced,
     mMulticastAddress |-> g, nSourcesPresent |-> present]

RawRecordLists ==
    { << MLDRecord(4, Mca1), MLDRecord(3, Mca1) >>,
      << MLDRecordWithSources(4, Mca1, 1), MLDRecord(3, Mca1) >>,
      << MLDRecordShortSources(3, Mca1, 2, 1), MLDRecord(4, Mca1) >>,
      << MLDRecord(2, Mca1), MLDRecord(4, Mca1) >> }

\* the lengths recvfrom returns: nothing, less than the header, the header
\* alone, a record cut short, and whole reports
TruncLens == {0, 4, 8, 20, 28, 40, 48, 64}

Truncated(bytes, n) == SubSeq(bytes, 1, IF n < Len(bytes) THEN n ELSE Len(bytes))

RawReports ==
    {[src |-> Lla1, buf |-> Truncated(MLDReportBytes(kICMPv6MLDv2Type, n, recs), len)] :
        recs \in RawRecordLists, n \in 0..3, len \in TruncLens}
    \cup {[src |-> PeerLla,
           buf |-> MLDReportBytes(kICMPv6MLDv2Type, 2, << MLDRecord(4, Mca1), MLDRecord(3, Mca1) >>)],
          [src |-> Lla1,
           buf |-> MLDReportBytes(131, 2, << MLDRecord(4, Mca1), MLDRecord(3, Mca1) >>)]}

\* a datagram reaches the monitor socket while none is waiting
MldArrivesRaw(src, buf) ==
    /\ IsRunning
    /\ UseMLDMonitor(platform)
    /\ nExt < MaxExtOps
    /\ mldQ = << >>
    /\ mldQ' = Append(mldQ, [src |-> src, buf |-> buf, org |-> "ext",
                             about |-> [type |-> IF buf = << >> THEN 0 ELSE buf[1],
                                        recs |-> << >>]])
    /\ calls' = << >>
    /\ step' = [act |-> "MldArrivesRaw"]
    /\ nExt' = nExt + 1
    /\ UNCHANGED << platform, sTunFd, sIpFd, sNetlinkFd, sMLDMonitorFd, sTunIndex,
                    exitCode, kernUnicast, kernMulticast, kernUp, kernFlags, otUnicast,
                    otMulticast, otEnabled, otChanged, netlinkQ, tunQ, nStack >>

NextMldRaw ==
    \/ \E a \in {Lla1, Mca1} : nStack < MaxScenOps /\ StackAddressChange(a, 64, TRUE, "none")
    \/ \E r \in RawReports : MldArrivesRaw(r.src, r.buf)
    \/ NetifProcess({sMLDMonitorFd}, {}, "none", "none")

SpecMldRaw == InitOn({Linux}) /\ [][NextMldRaw]_vars

(***************************************************************************)
(* Properties of the MLD parser, checked on SpecMldRaw.                    *)
(***************************************************************************)
\* the loop pass recorded in s read a datagram from the monitor socket
ReadsMldDatagram(s) ==
    /\ s.act = "platformNetifProcess"
    /\ sMLDMonitorFd \in s.rd
    /\ s.mld # "none"

\* an MLDv2 report, header complete, sent from an address of the tunnel
MldAccepted(s) ==
    /\ Len(s.mldbuf) >= MLDv2HeaderSize
    /\ s.mldbuf[1] = kICMPv6MLDv2Type
    /\ s.mldsrc \in DOMAIN kernUnicast

\* the 0-based offsets at which a whole record of type 3 or 4 for group g lies
\* in the datagram
ChangeRecordOffsets(buf, g) ==
    {o \in MLDv2HeaderSize..(Len(buf) - MLDv2RecordSize) :
        /\ buf[o + 1] \in {kICMPv6MLDv2RecordChangeToExcludeType,
                           kICMPv6MLDv2RecordChangeToIncludeType}
        /\ SubSeq(buf, o + 5, o + MLDv2RecordSize) = g}

\* C22: the MLD monitor calls otIp6SubscribeMulticastAddress or
\* otIp6UnsubscribeMulticastAddress only for a datagram of ICMPv6 type 143 sent
\* from one of the tunnel's own addresses, and only for a record of type 3 or 4
\* in it; a datagram from a neighbour, of another type or shorter than the
\* MLDv2 header, and a record of another type, make no call.
C22_OnlyOwnMldv2ChangeRecords ==
    ReadsMldDatagram(step) =>
        /\ ~MldAccepted(step) => MembershipCalls = << >>
        /\ \A i \in 1..Len(MembershipCalls) :
               ChangeRecordOffsets(step.mldbuf, MembershipCalls[i].addr) # {}

\* a neighbour's report with two change records was read and made no call
C22_Witness ==
    /\ ReadsMldDatagram(step)
    /\ step.mldsrc = PeerLla
    /\ Len(step.mldbuf) = MLDv2HeaderSize + 2 * MLDv2RecordSize
    /\ step.mldbuf[1] = kICMPv6MLDv2Type
    /\ Lla1 \in DOMAIN kernUnicast
    /\ MembershipCalls = << >>

RECURSIVE WholeRecords(_, _, _)
\* the 0-based offsets of the records that lie whole in the datagram, following
\* RFC 3810 5.2: k records at most, each 20 octets and its announced sources
WholeRecords(buf, k, o) ==
    IF k = 0 \/ o + MLDv2RecordSize > Len(buf) THEN << >>
    ELSE << o >> \o WholeRecords(buf, k - 1,
                        o + MLDv2RecordSize + 16 * (buf[o + 3] * 256 + buf[o + 4]))

\* the groups of the whole records of type 3 or 4, in the datagram's order
WholeChangeGroups(buf) ==
    LET os == WholeRecords(buf, buf[7] * 256 + buf[8], MLDv2HeaderSize)
        IsChange(o) == buf[o + 1] \in {kICMPv6MLDv2RecordChangeToExcludeType,
                                       kICMPv6MLDv2RecordChangeToIncludeType}
        cs == SelectSeq(os, IsChange)
    IN  [i \in 1..Len(cs) |-> SubSeq(buf, cs[i] + 5, cs[i] + MLDv2RecordSize)]

\* C23: whatever the datagram's length, its header record count and its
\* records' source counts, the record loop ends, and the stack calls of an
\* accepted report are those of the records that lie whole within the received
\* length, in order; a record cut short, and whatever a count announces beyond
\* the datagram's end, makes no call.
C23_RecordsWithinLength ==
    (ReadsMldDatagram(step) /\ MldAccepted(step)) =>
        [i \in 1..Len(MembershipCalls) |-> MembershipCalls[i].addr]
            = WholeChangeGroups(step.mldbuf)

\* a report that announces more records than it holds, its second record cut
\* short: one call
C23_Witness ==
    /\ ReadsMldDatagram(step)
    /\ MldAccepted(step)
    /\ Len(step.mldbuf) = 40
    /\ step.mldbuf[8] = 3
    /\ Len(MembershipCalls) = 1

(***************************************************************************)
(* The tun device failing: reads that return nothing, EAGAIN or EIO, and   *)
(* writes that fail with EIO.                                              *)
(***************************************************************************)
TunReadFaults == {"none", "EAGAIN", "EIO"}
TunFrames == {<< >>, Datagram(40)}

NextTunErr ==
    \/ \E dgram \in TunFrames : KernTunWrite(dgram)
    \/ \E fault \in WriteFaults : StackReceive(Datagram(40), fault)
    \/ \E fault \in TunReadFaults : NetifProcess({sTunFd}, {}, fault, "none")

SpecTunErr == InitOn({Linux, Darwin}) /\ [][NextTunErr]_vars

\* the pass read the tun device
ReadsTun(s) == s.act = "platformNetifProcess" /\ sTunFd \in s.rd

\* C24: a tun read that returns 0 octets or fails with EAGAIN/EWOULDBLOCK hands
\* nothing to the stack and the bridge keeps running; a tun read or write
\* that fails with another error ends the process.
C24_TunErrorsFatal ==
    /\ (/\ ReadsTun(step)
        /\ \/ step.fault = "EAGAIN"
           \/ \E i \in 1..Len(calls) : calls[i].op = "read" /\ calls[i].rval = 0)
           => (IsRunning /\ SendCalls = << >>)
    /\ (ReadsTun(step) /\ step.fault = "EIO") => ~IsRunning
    /\ (/\ step.act = "processReceive"
        /\ \E i \in 1..Len(calls) : calls[i].op = "write" /\ calls[i].rval = -1)
           => ~IsRunning

(***************************************************************************)
(* Repeated kernel configuration, checked on SpecAddr.                     *)
(***************************************************************************)
\* the kernel refused a configuration call because the change was already in
\* place: the address exists, the address is absent, the group is not joined
IsAlreadyDone(c) ==
    \/ c.op = "ioctl" /\ c.req \in {"SIOCSIFADDR", "SIOCAIFADDR_IN6"}
                      /\ c.errno \in {"EEXIST", "EALREADY"}
    \/ c.op = "ioctl" /\ c.req \in {"SIOCDIFADDR", "SIOCDIFADDR_IN6"}
                      /\ c.errno = "EADDRNOTAVAIL"
    \/ c.op = "setsockopt" /\ c.req = "IPV6_LEAVE_GROUP" /\ c.errno = "EADDRNOTAVAIL"

\* C25: an address-change callback whose kernel call finds the change already
\* in place (unicast address exists, unicast address absent, group not joined)
\* is treated as a success: the bridge keeps running.
C25_RepeatedConfigSucceeds ==
    (/\ step.act = "processAddressChange"
     /\ \E i \in 1..Len(calls) : IsAlreadyDone(calls[i]))
        => IsRunning

(***************************************************************************)
(* Notifications about other interfaces: the routing sockets report every  *)
(* interface of the host, and rtnetlink reports IPv4 addresses as well.    *)
(***************************************************************************)
\* the index of another interface of the host
OtherIfIndex(idx) == idx + 1

\* what the message is about is kept apart from the events of the tunnel
Foreign(m) == [m EXCEPT !.about = [kind |-> "Foreign", of |-> @.kind]]

\* the notifications the bridge's event socket can carry that are not about an
\* IPv6 address or the link of the tunnel
ForeignMsgs(p, idx) ==
    LET other == OtherIfIndex(idx)
    IN  IF IsLinux(p)
        THEN {NlAddrMsg(t, other, Gua1, 64, "ext") : t \in {"RTM_NEWADDR", "RTM_DELADDR"}}
             \cup {[NlAddrMsg(t, idx, Gua1, 32, "ext") EXCEPT !.ifa_family = "AF_INET"] :
                       t \in {"RTM_NEWADDR", "RTM_DELADDR"}}
             \cup {NlLinkMsg("RTM_NEWLINK", other, up, "ext") : up \in BOOLEAN}
        ELSE {RtAddrMsg(t, other, Gua1, 64, "ext") : t \in {"RTM_NEWADDR", "RTM_DELADDR"}}
             \cup (IF HasRtmMAddr(p)
                   THEN {RtMAddrMsg(t, other, Mca1, "ext") :
                             t \in {"RTM_NEWMADDR", "RTM_DELMADDR"}}
                   ELSE {})
             \cup {RtInfoMsg(other, up, "ext") : up \in BOOLEAN}

\* the kernel reports an event of another interface, or an IPv4 address
OtherIfEvent(m) ==
    /\ IsRunning
    /\ nExt < MaxExtOps
    /\ netlinkQ' = Append(netlinkQ, IF IsLinux(platform) THEN << Foreign(m) >>
                                                           ELSE Foreign(m))
    /\ calls' = << >>
    /\ step' = [act |-> "OtherIfEvent"]
    /\ nExt' = nExt + 1
    /\ UNCHANGED << platform, sTunFd, sIpFd, sNetlinkFd, sMLDMonitorFd, sTunIndex,
                    exitCode, kernUnicast, kernMulticast, kernUp, kernFlags, otUnicast,
                    otMulticast, otEnabled, otChanged, mldQ, tunQ, nStack >>

NextIndex ==
    \/ \E m \in ForeignMsgs(platform, sTunIndex) : OtherIfEvent(m)
    \/ \E a \in {Gua1, Mca1} : StackAddressChange(a, 64, TRUE, "none")
    \/ ExtAddrAdd(Gua1, 64)
    \/ NetifProcess({sNetlinkFd}, {}, "none", "none")

SpecIndex == InitOn({Linux, Darwin, FreeBSD, NetBSD}) /\ [][NextIndex]_vars

\* the loop pass recorded in s read a notification that is not about the tunnel
ReadsForeign(s) == s.act = "platformNetifProcess" /\ s.nlev.kind = "Foreign"

\* C26: a pass that reads an address or link notification of another interface
\* index, or a netlink address record of another family than AF_INET6, makes no
\* stack call and no kernel configuration call, in every dialect.
C26_ForeignEventsIgnored ==
    ReadsForeign(step) =>
        \A i \in 1..Len(calls) : ~IsStackCall(calls[i]) /\ ~IsKernelCall(calls[i])

\* a removal reported for another interface was read while the stack holds the
\* same address, and the stack still holds it
C26_Witness ==
    /\ ReadsForeign(step)
    /\ step.nlev.of = "AddrDel"
    /\ Gua1 \in DOMAIN otUnicast

(***************************************************************************)
(* A stack that runs its callbacks inline: a call of the stack's interface *)
(* made by a kernel-event handler runs processAddressChange or             *)
(* processStateChange before it returns.                                   *)
(***************************************************************************)
\* what a pass leaves behind: the kernel's and the stack's state, and the exit
Outcome(w) ==
    [ku |-> w.ku, km |-> w.km, kup |-> w.kup, su |-> w.su, sm |-> w.sm,
     sen |-> w.sen, exit |-> w.exit]

\* the call changed the stack's state, so the stack owes a callback for it
OwesCallback(c) ==
    /\ c.op \in {"otIp6AddUnicastAddress", "otIp6RemoveUnicastAddress",
                 "otIp6SubscribeMulticastAddress", "otIp6UnsubscribeMulticastAddress"}
    /\ c.error = "NONE"

RECURSIVE DeliverDeferred(_, _, _)
\* the callbacks owed for the calls cs[i..] run one after the other, after the
\* handler that made the calls has returned
DeliverDeferred(w, cs, i) ==
    IF i > Len(cs) \/ ~Running(w) THEN w
    ELSE LET c == cs[i]
             w1 == IF ~OwesCallback(c) THEN w
                   ELSE IF c.op = "otIp6AddUnicastAddress"
                   THEN processAddressChange(w, c.addr, c.plen, TRUE)
                   ELSE IF c.op = "otIp6RemoveUnicastAddress"
                   THEN processAddressChange(w, c.addr, 128, FALSE)
                   ELSE processAddressChange(w, c.addr, 128,
                                             c.op = "otIp6SubscribeMulticastAddress")
         IN  DeliverDeferred(w1, cs, i + 1)

\* the pass with the callbacks deferred until the handlers have returned
DeferredPass(w, rd) ==
    LET w1 == platformNetifProcess([w EXCEPT !.inline = FALSE], rd, {})
        w2 == DeliverDeferred(w1, w1.calls, 1)
    IN  IF Running(w2) /\ w2.chg # {}
        THEN processStateChange([w2 EXCEPT !.chg = {}], w2.chg)
        ELSE w2

\* platformNetifProcess while the stack runs its callbacks inline
NetifProcessInline(rd) ==
    /\ IsRunning
    /\ LET w0 == [World(Inputs("none", "none", "bridge")) EXCEPT !.inline = TRUE]
       IN  /\ \E w \in {platformNetifProcess(w0, rd, {})} : Commit(w)
           /\ step' = [act |-> "platformNetifProcess", rd |-> rd, inline |-> TRUE,
                       records |-> IF sNetlinkFd \in rd /\ netlinkQ # << >> /\ IsLinux(platform)
                                   THEN Len(Head(netlinkQ)) ELSE 1,
                       deferred |-> Outcome(DeferredPass(w0, rd))]
    /\ UNCHANGED << nStack, nExt >>

\* rtnetlink delivers the two oldest notifications in one datagram
NetlinkBatch ==
    /\ IsRunning
    /\ IsLinux(platform)
    /\ Len(netlinkQ) >= 2
    /\ Len(netlinkQ[1]) = 1
    /\ netlinkQ' = << netlinkQ[1] \o netlinkQ[2] >> \o SubSeq(netlinkQ, 3, Len(netlinkQ))
    /\ calls' = << >>
    /\ step' = [act |-> "NetlinkBatch"]
    /\ UNCHANGED << platform, sTunFd, sIpFd, sNetlinkFd, sMLDMonitorFd, sTunIndex,
                    exitCode, kernUnicast, kernMulticast, kernUp, kernFlags, otUnicast,
                    otMulticast, otEnabled, otChanged, mldQ, tunQ, nStack, nExt >>

NextInline ==
    \/ \E a \in {Gua1, Gua2} : ExtAddrAdd(a, 64)
    \/ ExtAddrDel(Gua1)
    \/ ExtJoin(Mca1)
    \/ ExtLeave(Mca1)
    \/ \E up \in BOOLEAN : ExtLink(up)
    \/ NetlinkBatch
    \/ \E fd \in EventFds : NetifProcessInline({fd})

SpecInline == InitOn({Linux, Darwin}) /\ [][NextInline]_vars

\* the pass recorded in s ran a callback inside a call of the stack's interface
NestedCallback(s) ==
    /\ s.act = "platformNetifProcess"
    /\ s.inline
    /\ \E i \in 1..Len(calls) :
           \/ OwesCallback(calls[i])
           \/ calls[i].op = "otIp6SetEnabled" /\ \E j \in (i + 1)..Len(calls) :
                                                     IsKernelCall(calls[j])

\* C27: when a stack call made by a kernel-event handler runs the address or
\* state callback before it returns, the nested kernel call does not terminate
\* the process, and the pass ends with the kernel and stack state it would have
\* with the callbacks deferred until the handler has returned.
C27_InlineCallbacksSafe ==
    NestedCallback(step) =>
        /\ IsRunning
        /\ Outcome(World(Inputs("none", "none", "bridge"))) = step.deferred

(***************************************************************************)
(* Packet order, checked on SpecPkt: the bridge holds no packet queue, so  *)
(* each step moves at most one datagram and moves the oldest one.          *)
(***************************************************************************)
IsRead(c) == c.op = "read"

\* C28: a platformNetifProcess call reads at most one frame from the tun device,
\* the oldest one, and what it hands to the stack is nothing or the datagram of
\* that frame, so the datagrams handed to the stack are a subsequence, in order
\* and without duplicates, of those the kernel wrote; a receive callback writes
\* nothing or its own datagram before it returns, so the writes follow the order
\* of the callbacks.
C28_PacketOrder ==
    [][/\ step'.act = "platformNetifProcess" =>
              /\ Len(SelectSeq(calls', IsRead)) <= 1
              /\ \/ tunQ' = tunQ /\ SentMessages' = << >>
                 \/ /\ tunQ # << >>
                    /\ tunQ' = Tail(tunQ)
                    /\ SentMessages' \in {<< >>, << Head(tunQ).dgram >>}
       /\ step'.act = "processReceive" =>
              WrittenBytes' \in {<< >>, << TunFrame(platform, step'.dgram) >>}
      ]_vars

(***************************************************************************)
(* The address callback alone: the stack reports unicast and multicast     *)
(* addresses with several prefix lengths, the kernel accepts or refuses,   *)
(* and the host may have shut the bridge down.                             *)
(***************************************************************************)
CallbackAddrs == {Gua1, Lla1, Mca1}
CallbackPrefixLens == {7, 64, 128}
CallbackFaults == {"none", "EIO"}

NextCallback ==
    \/ \E a \in CallbackAddrs, plen \in CallbackPrefixLens, fault \in CallbackFaults :
           StackAddressChange(a, plen, TRUE, fault)
    \/ \E a \in CallbackAddrs, fault \in CallbackFaults :
           StackAddressChange(a, IF IsMulticast(a) THEN 128 ELSE otUnicast[a], FALSE, fault)
    \/ NetifDeinit

SpecCallback == InitOn({Linux, Darwin, FreeBSD, NetBSD}) /\ [][NextCallback]_vars

KernelCalls == SelectSeq(calls, IsKernelCall)

\* C29: an address-change callback that runs while the control socket is open
\* makes exactly one kernel configuration call: IPV6_JOIN_GROUP (added) or
\* IPV6_LEAVE_GROUP (removed) of the address if its octet 0 is 0xFF, otherwise
\* an ioctl that adds the address with the callback's prefix length (added) or
\* removes it (removed).
C29_OneConfigCallPerCallback ==
    (step.act = "processAddressChange" /\ sIpFd >= 0) =>
        /\ Len(KernelCalls) = 1
        /\ KernelCalls[1].addr = step.addr
        /\ IF step.addr[1] = 255
           THEN /\ KernelCalls[1].op = "setsockopt"
                /\ KernelCalls[1].req = (IF step.added THEN "IPV6_JOIN_GROUP"
                                                       ELSE "IPV6_LEAVE_GROUP")
           ELSE /\ KernelCalls[1].op = "ioctl"
                /\ IF step.added
                   THEN /\ KernelCalls[1].req \in {"SIOCSIFADDR", "SIOCAIFADDR_IN6"}
                        /\ KernelCalls[1].plen = step.plen
                        /\ KernelCalls[1].errno = "OK" => kernUnicast[step.addr] = step.plen
                   ELSE KernelCalls[1].req \in {"SIOCDIFADDR", "SIOCDIFADDR_IN6"}

\* a unicast address was added with a prefix length that is no multiple of 8,
\* through the prefix mask of the BSD request
C29_Witness ==
    /\ step.act = "processAddressChange" /\ sIpFd >= 0
    /\ platform = Darwin
    /\ step.added /\ step.addr = Gua1 /\ step.plen = 7
    /\ Len(KernelCalls) = 1 /\ KernelCalls[1].errno = "OK"
    /\ kernUnicast[Gua1] = 7

(***************************************************************************)
(* Failing group membership calls: the stack reports a link-local and a    *)
(* realm-local group while setsockopt succeeds or fails.                   *)
(***************************************************************************)
LlMca == Addr(255, 2, 0, 1)        \* ff02::1
GroupAddrs == {LlMca, Mca1}

NextGroup ==
    \/ \E g \in GroupAddrs, fault \in Errnos : StackAddressChange(g, 128, TRUE, fault)
    \/ \E g \in GroupAddrs, fault \in Errnos : StackAddressChange(g, 128, FALSE, fault)

SpecGroup == InitOn({Linux, Darwin, FreeBSD, NetBSD}) /\ [][NextGroup]_vars

\* the step's setsockopt failed
MembershipFailed ==
    /\ step.act = "processAddressChange"
    /\ Len(KernelCalls) = 1
    /\ KernelCalls[1].op = "setsockopt"
    /\ KernelCalls[1].errno # "OK"

\* C30: a join or leave that fails with EINVAL for a link-local group (ff02::1)
\* is logged as a warning and the bridge keeps running; a failure with another
\* errno, or for a group of another scope (ff03::abcd), is not downgraded: the
\* process terminates.
C30_EinvalOnLinkLocalIgnored ==
    MembershipFailed =>
        IF KernelCalls[1].errno = "EINVAL" /\ step.addr = LlMca
        THEN IsRunning /\ \E i \in 1..Len(calls) : calls[i].op = "otLogWarnPlat"
        ELSE ~IsRunning

\* a leave of ff02::1 failed with EINVAL and the bridge runs on
C30_Witness ==
    /\ MembershipFailed
    /\ KernelCalls[1].errno = "EINVAL"
    /\ KernelCalls[1].req = "IPV6_LEAVE_GROUP"
    /\ step.addr = LlMca
    /\ IsRunning

(***************************************************************************)
(* netif.cpp: platformNetifUpdateFdSet.  The three descriptor sets and the *)
(* largest descriptor belong to the caller; the step records what it was   *)
(* given and what it handed back.                                          *)
(***************************************************************************)
SetMax(S) == CHOOSE x \in S : \A y \in S : y <= x

\* a variant of platformNetifUpdateFdSet that stores the largest of the
\* bridge's descriptors without comparing it with the caller's
AssignMaxMutant_platformNetifUpdateFdSet(w, aReadFdSet, aWriteFdSet, aErrorFdSet, aMaxFd) ==
    IF ~(w.idx > 0)
    THEN [rd |-> aReadFdSet, wr |-> aWriteFdSet, er |-> aErrorFdSet, max |-> aMaxFd,
          failed |-> FALSE]
    ELSE LET fds == {w.tunfd, w.nlfd}
                        \cup (IF UseMLDMonitor(w.plat) THEN {w.mldfd} ELSE {})
         IN  [rd |-> aReadFdSet \cup fds, wr |-> aWriteFdSet, er |-> aErrorFdSet \cup fds,
              max |-> SetMax(fds), failed |-> FALSE]

\* netif.cpp:1495-1532; failed: one of the assertions of lines 1501-1503 fails
platformNetifUpdateFdSet(w, aReadFdSet, aWriteFdSet, aErrorFdSet, aMaxFd) ==
    IF ~(w.idx > 0)
    THEN [rd |-> aReadFdSet, wr |-> aWriteFdSet, er |-> aErrorFdSet, max |-> aMaxFd,
          failed |-> FALSE]
    ELSE IF ~(w.tunfd >= 0) \/ ~(w.nlfd >= 0) \/ ~(w.ipfd >= 0)
    THEN [rd |-> aReadFdSet, wr |-> aWriteFdSet, er |-> aErrorFdSet, max |-> aMaxFd,
          failed |-> TRUE]
    ELSE LET mld == IF UseMLDMonitor(w.plat) THEN {w.mldfd} ELSE {}
             max1 == IF w.tunfd > aMaxFd THEN w.tunfd ELSE aMaxFd
             max2 == IF w.nlfd > max1 THEN w.nlfd ELSE max1
             max3 == IF UseMLDMonitor(w.plat) /\ w.mldfd > max2 THEN w.mldfd ELSE max2
         IN  [rd |-> aReadFdSet \cup {w.tunfd, w.nlfd} \cup mld,
              wr |-> aWriteFdSet,
              er |-> aErrorFdSet \cup {w.tunfd, w.nlfd} \cup mld,
              max |-> max3, failed |-> FALSE]

\* what a call can produce: a failed assertion aborts the process; a build
\* without assertions goes on to FD_SET of a negative descriptor, which is
\* undefined and may leave anything in the sets
UpdateFdSetOutcomes(w, aReadFdSet, aWriteFdSet, aErrorFdSet, aMaxFd) ==
    LET Of(r) ==
            IF ~r.failed THEN {r}
            ELSE {r} \cup {[rd |-> x, wr |-> y, er |-> z, max |-> m, failed |-> FALSE] :
                              x \in SUBSET (aReadFdSet \cup aWriteFdSet \cup aErrorFdSet),
                              y \in SUBSET (aReadFdSet \cup aWriteFdSet \cup aErrorFdSet),
                              z \in SUBSET (aReadFdSet \cup aWriteFdSet \cup aErrorFdSet),
                              m \in {aMaxFd, w.tunfd, w.nlfd, w.mldfd}}
    IN  Of(platformNetifUpdateFdSet(w, aReadFdSet, aWriteFdSet, aErrorFdSet, aMaxFd))

NetifUpdateFdSet(aReadFdSet, aWriteFdSet, aErrorFdSet, aMaxFd) ==
    /\ IsRunning
    /\ \E r \in UpdateFdSetOutcomes(World(Inputs("none", "none", "bridge")),
                                    aReadFdSet, aWriteFdSet, aErrorFdSet, aMaxFd) :
           /\ \E w \in {World(Inputs("none", "none", "bridge"))} :
                  Commit(IF r.failed THEN Die(w, "SIGABRT") ELSE w)
           /\ step' = [act |-> "platformNetifUpdateFdSet",
                       in |-> [rd |-> aReadFdSet, wr |-> aWriteFdSet, er |-> aErrorFdSet,
                               max |-> aMaxFd],
                       out |-> r]
    /\ UNCHANGED << nStack, nExt >>

\* the descriptors of the rest of the program in the caller's sets
OtherReadFds == {1, 9}
OtherWriteFds == {2, 5}
CallerMaxFds == {-1, 4, 9}

InitFdSet == InitOn({Linux, Darwin, FreeBSD, NetBSD})

NextFdSet ==
    \/ \E rd \in SUBSET OtherReadFds, wr \in SUBSET OtherWriteFds,
          er \in SUBSET OtherReadFds, max \in CallerMaxFds :
           NetifUpdateFdSet(rd, wr, er, max)
    \/ NetifDeinit

SpecFdSet == InitFdSet /\ [][NextFdSet]_vars

\* C31: with a positive tunnel index platformNetifUpdateFdSet returns the read
\* set and the error set each enlarged by the tun, the event and (with the MLD
\* monitor) the MLD descriptor, the largest of the caller's max-fd and those
\* descriptors as max-fd, never a smaller one, and the write set as given;
\* with the tunnel index 0 it returns all four as given.
C31_UpdateFdSetFrame ==
    step.act = "platformNetifUpdateFdSet" =>
        /\ ~step.out.failed
        /\ step.out.wr = step.in.wr
        /\ IF sTunIndex > 0
           THEN /\ step.out.rd = step.in.rd \cup LoopFds
                /\ step.out.er = step.in.er \cup LoopFds
                /\ step.out.max = SetMax({step.in.max} \cup LoopFds)
                /\ step.out.max >= step.in.max
           ELSE /\ step.out.rd = step.in.rd
                /\ step.out.er = step.in.er
                /\ step.out.max = step.in.max

C31_Witness ==
    /\ step.act = "platformNetifUpdateFdSet"
    /\ sTunIndex > 0
    /\ platform = Linux
    /\ step.in.max = 9
    /\ step.in.wr = {2, 5}
    /\ step.in.rd = {1}
    /\ step.out.rd = {1, 4, 5, 6}
    /\ step.out.max = 9

(***************************************************************************)
(* Address families on the tun device: the kernel routes IPv6 and, when    *)
(* the administrator gave the interface an IPv4 address, IPv4 datagrams    *)
(* into the tunnel; the af-prefix builds put htonl(family) before each.    *)
(***************************************************************************)
\* AF_INET of the build's <sys/socket.h>
PF_INET(p) == 2

\* an IPv4 datagram of n octets: version 4, header length 5 in the first octet
Datagram4(n) == [i \in 1..n |-> IF i = 1 THEN 69 ELSE i % 251]

\* the tun driver's header for a family
TunFamilyHeader(af) == << 0, 0, Hi(af), Lo(af) >>

\* the kernel routes a datagram of family af into the tunnel
KernTunWriteAf(af, dgram) ==
    /\ IsRunning
    /\ nExt < MaxFrames
    /\ tunQ' = Append(tunQ, [bytes |-> IF IsBSD(platform) THEN TunFamilyHeader(af) \o dgram
                                       ELSE dgram,
                             dgram |-> dgram])
    /\ calls' = << >>
    /\ step' = [act |-> "KernTunWriteAf", af |-> af]
    /\ nExt' = nExt + 1
    /\ UNCHANGED << platform, sTunFd, sIpFd, sNetlinkFd, sMLDMonitorFd, sTunIndex,
                    exitCode, kernUnicast, kernMulticast, kernUp, kernFlags, otUnicast,
                    otMulticast, otEnabled, otChanged, netlinkQ, mldQ, nStack >>

NextAf ==
    \/ KernTunWriteAf(PF_INET6(platform), Datagram(40))
    \/ KernTunWriteAf(PF_INET(platform), Datagram4(20))
    \/ \E otFault \in {"none", "SEND_DROP"} : NetifProcess({sTunFd}, {}, "none", otFault)

SpecAf == InitOn({Linux, Darwin, FreeBSD, NetBSD}) /\ [][NextAf]_vars

\* C32: a pass that reads the tun device hands the stack what it read without
\* its first 4 octets when the build is an af-prefix one, at least 4 octets
\* were read and these are the header of the IPv6 family, and otherwise all
\* that it read.
C32_StripOnlyIPv6Header ==
    (ReadsDatagram(step) /\ IsRunning) =>
        LET rval == Min(Len(step.frame), kMaxIp6Size)
            expected == /\ IsBSD(platform)
                        /\ rval >= 4
                        /\ SubSeq(step.frame, 1, 4) = TunAfHeader(platform)
        IN  SentMessages = << SubSeq(step.frame, IF expected THEN 5 ELSE 1, rval) >>

\* the part of C32 the code keeps: an IPv6 header is skipped on the af-prefix
\* builds, nothing is skipped on Linux
C32_IPv6HeaderStripped ==
    (ReadsDatagram(step) /\ IsRunning /\ step.tun = Datagram(40)) =>
        SentMessages = << Datagram(40) >>

(***************************************************************************)
(* netif.cpp: platformNetifInit.  The descriptors are numbers the kernel   *)
(* hands out (aFds, in the order they are asked for); each system call can *)
(* fail (w.fault names the one that does).                                 *)
(***************************************************************************)
IFNAMSIZ == 16

\* strlen(aInterfaceName)
Strlen(aInterfaceName) == Len(aInterfaceName.chars)

\* a new socket or device has nothing queued; a new interface has no address
FreshTunnel(w) == [KernTunnelGone(w) EXCEPT !.kfl = TunFlags, !.tunq = << >>]

\* netif.cpp:1414-1461
platformConfigureNetLink(w, fd) ==
    IF w.fault = "netlink"
    THEN Die(Log([w EXCEPT !.nlfd = -1], [op |-> "socket", handle |-> "sNetlinkFd", fd |-> -1]),
             "OT_EXIT_ERROR_ERRNO")
    ELSE LET w1 == Log([w EXCEPT !.nlfd = fd, !.nlq = << >>],
                       [op |-> "socket", handle |-> "sNetlinkFd", fd |-> fd])
         IN  IF w.fault = "bind"
             THEN Die(Log(w1, [op |-> IF IsLinux(w.plat) THEN "bind" ELSE "fcntl",
                               fd |-> fd, errno |-> "EINVAL"]),
                      "OT_EXIT_ERROR_ERRNO")
             ELSE Log(w1, [op |-> IF IsLinux(w.plat) THEN "bind" ELSE "fcntl",
                           fd |-> fd, errno |-> "OK"])

\* netif.cpp:1288-1320 (Linux) and 1380-1412 (NetBSD, FreeBSD, macOS tun)
platformConfigureTunDevice(w, aInterfaceName, fd) ==
    IF w.fault = "open"
    THEN Die(Log([w EXCEPT !.tunfd = -1], [op |-> "open", handle |-> "sTunFd", fd |-> -1]),
             "OT_EXIT_ERROR_ERRNO")
    ELSE LET Opened(w1) ==
                 IF IsLinux(w.plat)
                 THEN IF ~aInterfaceName.isNull /\ ~(Strlen(aInterfaceName) < IFNAMSIZ)
                      THEN Die(w1, "OT_EXIT_INVALID_ARGUMENTS")
                      ELSE IF w.fault = "ioctl"
                      THEN Die(Log(w1, [op |-> "ioctl", req |-> "TUNSETIFF", errno |-> "EBUSY"]),
                               "OT_EXIT_ERROR_ERRNO")
                      ELSE Log(Log(FreshTunnel(w1),
                                   [op |-> "ioctl", req |-> "TUNSETIFF", errno |-> "OK"]),
                               [op |-> "ioctl", req |-> "TUNSETLINK", errno |-> "OK"])
                 ELSE IF w.fault = "ioctl"
                      THEN Die(Log(w1, [op |-> "ioctl", req |-> "TUNSIFHEAD", errno |-> "EBUSY"]),
                               "OT_EXIT_ERROR_ERRNO")
                      ELSE Log(FreshTunnel(w1),
                               [op |-> "ioctl", req |-> "TUNSIFHEAD", errno |-> "OK"])
         IN  Opened(Log([w EXCEPT !.tunfd = fd], [op |-> "open", handle |-> "sTunFd", fd |-> fd]))

\* netif.cpp:1173-1187: a socket() that failed shows in the setsockopt on it
mldListenerInit(w, fd) ==
    IF w.fault = "mld"
    THEN Die(Log(Log([w EXCEPT !.mldfd = -1],
                     [op |-> "socket", handle |-> "sMLDMonitorFd", fd |-> -1]),
                 [op |-> "setsockopt", req |-> "IPV6_JOIN_GROUP", errno |-> "EBADF"]),
             "OT_EXIT_FAILURE")
    ELSE Log(Log(Log([w EXCEPT !.mldfd = fd, !.mldq = << >>],
                     [op |-> "socket", handle |-> "sMLDMonitorFd", fd |-> fd]),
                 [op |-> "setsockopt", req |-> "IPV6_JOIN_GROUP", errno |-> "OK"]),
             [op |-> "setsockopt", req |-> "SO_BINDTODEVICE", errno |-> "OK"])

\* netif.cpp:1463-1493
platformNetifInit(w, aInterfaceName, aFds) ==
    LET Callbacks(w4) ==
            IF ~Running(w4) THEN w4
            ELSE Log(Log(Log(w4, [op |-> "otIp6SetReceiveCallback"]),
                         [op |-> "otIp6SetAddressCallback"]),
                     [op |-> "otSetStateChangedCallback"])
        Mld(w3) ==
            Callbacks(IF Running(w3) /\ UseMLDMonitor(w3.plat)
                      THEN mldListenerInit(w3, aFds[4]) ELSE w3)
        Index(w2) ==
            Mld(IF ~Running(w2) THEN w2
                ELSE IF w2.fault = "if_nametoindex"
                THEN Die(Log([w2 EXCEPT !.idx = 0], [op |-> "if_nametoindex", index |-> 0]),
                         "OT_EXIT_FAILURE")
                ELSE Log([w2 EXCEPT !.idx = 7], [op |-> "if_nametoindex", index |-> 7]))
        Tun(w1) ==
            Index(IF ~Running(w1) THEN w1
                  ELSE platformConfigureTunDevice(w1, aInterfaceName, aFds[3]))
        NetLink(w0) ==
            Tun(IF ~Running(w0) THEN w0
                ELSE platformConfigureNetLink(Log(w0, [op |-> "otIcmp6SetEchoMode"]), aFds[2]))
    IN  NetLink(IF w.fault = "socket"
                THEN Die(Log([w EXCEPT !.ipfd = -1],
                             [op |-> "socket", handle |-> "sIpFd", fd |-> -1]),
                         "OT_EXIT_ERROR_ERRNO")
                ELSE Log([w EXCEPT !.ipfd = aFds[1]],
                         [op |-> "socket", handle |-> "sIpFd", fd |-> aFds[1]]))

\* the state before platformNetifInit (netif.cpp:204-211)
Unconstructed ==
    /\ platform \in {Linux, Darwin, FreeBSD, NetBSD}
    /\ sIpFd = -1
    /\ sNetlinkFd = -1
    /\ sTunFd = -1
    /\ sMLDMonitorFd = -1
    /\ sTunIndex = 0
    /\ exitCode = "running"
    /\ kernUnicast = NoAddrs
    /\ kernMulticast = {}
    /\ kernUp = FALSE
    /\ kernFlags = TunFlags
    /\ otUnicast = NoAddrs
    /\ otMulticast = {}
    /\ otEnabled = FALSE
    /\ otChanged = {}
    /\ netlinkQ = << >>
    /\ mldQ = << >>
    /\ tunQ = << >>
    /\ calls = << >>
    /\ nStack = 0
    /\ nExt = 0
    /\ step = [act |-> "start"]

\* an interface name of n characters, and no name
Name(n) == [isNull |-> FALSE, chars |-> [i \in 1..n |-> 119]]
NoName == [isNull |-> TRUE, chars |-> << >>]

\* the descriptors the kernel can hand out: 3.. in a process that holds no
\* other, 7.. while the descriptors of an earlier initialization are open
FreshFds ==
    {fds \in {<< 3, 4, 5, 6 >>, << 7, 8, 9, 10 >>} :
        \A i \in 1..4 : fds[i] \notin {sIpFd, sNetlinkFd, sTunFd, sMLDMonitorFd}}

NetifInit(aInterfaceName, fault) ==
    /\ IsRunning
    /\ \E fds \in FreshFds :
           \E w \in {platformNetifInit(World(Inputs(fault, "none", "bridge")),
                                       aInterfaceName, fds)} : Commit(w)
    /\ step' = [act |-> "platformNetifInit", name |-> aInterfaceName, fault |-> fault,
                prevIndex |-> sTunIndex]
    /\ UNCHANGED << nStack, nExt >>

InterfaceNames == {NoName, Name(4), Name(IFNAMSIZ - 1), Name(IFNAMSIZ), Name(IFNAMSIZ + 4)}
InitFaults == {"none", "socket", "netlink", "bind", "open", "ioctl", "if_nametoindex", "mld"}

NextLife ==
    \/ \E name \in InterfaceNames, fault \in InitFaults : NetifInit(name, fault)
    \/ NetifDeinit
    \/ \E max \in {-1, 9} : NetifUpdateFdSet({}, {}, {}, max)
    \/ \E rd \in SUBSET {sTunFd}, er \in SUBSET LoopFds : NetifProcess(rd, er, "none", "none")

SpecLife == Unconstructed /\ [][NextLife]_vars

IsCallbackRegistration(c) ==
    c.op \in {"otIp6SetReceiveCallback", "otIp6SetAddressCallback", "otSetStateChangedCallback"}
IsIndexLookup(c) == c.op = "if_nametoindex"

\* the call had every system call succeed
InitUnhindered(s) == s.act = "platformNetifInit" /\ s.fault = "none"

\* C33: platformNetifInit with a name of more than 15 octets ends the process
\* with OT_EXIT_INVALID_ARGUMENTS without having registered a callback with
\* the stack and without having set the tunnel index; with a name of at most
\* 15 octets (or none) it returns with the callbacks registered and the index
\* set.  (No system call fails.)
C33_LongNameRejected ==
    InitUnhindered(step) =>
        IF ~step.name.isNull /\ Strlen(step.name) > 15
        THEN /\ exitCode = "OT_EXIT_INVALID_ARGUMENTS"
             /\ SelectSeq(calls, IsCallbackRegistration) = << >>
             /\ SelectSeq(calls, IsIndexLookup) = << >>
             /\ sTunIndex = step.prevIndex
        ELSE /\ IsRunning
             /\ Len(SelectSeq(calls, IsCallbackRegistration)) = 3
             /\ sTunIndex > 0

\* the part of C33 the code keeps: the Linux build
C33_LongNameRejectedOnLinux == IsLinux(platform) => C33_LongNameRejected

(***************************************************************************)
(* The order of acquisition and release, checked on SpecLife.              *)
(***************************************************************************)
IsAcquire(c) == c.op \in {"socket", "open"}

\* the descriptors of the calls cs, in the order of the calls
FdsOf(cs) == [i \in 1..Len(cs) |-> cs[i].fd]

Reversed(s) == [i \in 1..Len(s) |-> s[Len(s) + 1 - i]]

\* platformNetifDeinit follows a platformNetifInit that returned with all
\* descriptors open
DeinitAfterInit == step'.act = "platformNetifDeinit" /\ InitUnhindered(step) /\ IsRunning

\* C34 as stated: platformNetifDeinit closes the descriptors in the reverse
\* of the order in which the platformNetifInit before it opened them.
C34_ReverseTeardown ==
    [][DeinitAfterInit =>
           FdsOf(SelectSeq(calls', IsClose)) = Reversed(FdsOf(SelectSeq(calls, IsAcquire)))]_vars

\* C34: platformNetifInit opens the control socket, the event socket, the tun
\* device and (with the MLD monitor) the MLD socket, in this order;
\* platformNetifDeinit closes the tun device, the control socket, the event
\* socket and the MLD socket, in this order, and leaves every handle at -1.
C34_TeardownOrder ==
    [][DeinitAfterInit =>
           LET mld == IF UseMLDMonitor(platform) THEN << sMLDMonitorFd >> ELSE << >>
           IN  /\ FdsOf(SelectSeq(calls, IsAcquire)) = << sIpFd, sNetlinkFd, sTunFd >> \o mld
               /\ FdsOf(SelectSeq(calls', IsClose)) = << sTunFd, sIpFd, sNetlinkFd >> \o mld
               /\ sTunFd' = -1 /\ sIpFd' = -1 /\ sNetlinkFd' = -1 /\ sMLDMonitorFd' = -1]_vars

C34_Witness ==
    /\ step.act = "platformNetifDeinit"
    /\ step.prev = "platformNetifInit"
    /\ platform = Linux
    /\ FdsOf(CloseCalls) = << 5, 3, 4, 6 >>
    /\ OpenHandles = {}

\* C35: while the process runs, a positive tunnel index comes with the tun,
\* the event and the control descriptor all >= 0, whatever calls of
\* platformNetifInit, platformNetifDeinit, platformNetifUpdateFdSet and
\* platformNetifProcess led there, and no call of platformNetifUpdateFdSet
\* fails one of its assertions.
C35_IndexImpliesOpen ==
    /\ (IsRunning /\ sTunIndex > 0) => (sTunFd >= 0 /\ sNetlinkFd >= 0 /\ sIpFd >= 0)
    /\ step.act = "platformNetifUpdateFdSet" => (~step.out.failed /\ exitCode # "SIGABRT")

\* platformNetifUpdateFdSet passed its assertions after a second
\* platformNetifInit had replaced the descriptors of the first
C35_Witness ==
    /\ step.act = "platformNetifUpdateFdSet"
    /\ sTunIndex > 0
    /\ sIpFd = 7 /\ sNetlinkFd = 8 /\ sTunFd = 9
    /\ step.out.rd = LoopFds
    /\ IsRunning

(***************************************************************************)
(* After the teardown: platformNetifDeinit does not unregister the         *)
(* callbacks, the stack keeps calling them and the host loop keeps calling *)
(* platformNetifUpdateFdSet and platformNetifProcess.                      *)
(***************************************************************************)
AfterAddrs == {Gua1, Mca1}

\* what select() can report: numbers the descriptors had
StaleFds == {4, 5}

NextAfter ==
    \/ \E a \in AfterAddrs : StackAddressChange(a, 64, TRUE, "none")
    \/ \E a \in AfterAddrs :
           StackAddressChange(a, IF IsMulticast(a) THEN 128 ELSE otUnicast[a], FALSE, "none")
    \/ \E enabled \in BOOLEAN : StackSetEnabled(enabled)
    \/ StackStateChanged("none")
    \/ StackReceive(Datagram(40), "none")
    \/ \E rd \in {{5}, StaleFds} : NetifProcess(rd, {}, "none", "none")
    \/ \E max \in {-1, 9} : NetifUpdateFdSet({1}, {2}, {1}, max)
    \/ NetifDeinit

SpecAfter == InitOn({Linux, Darwin, FreeBSD, NetBSD}) /\ [][NextAfter]_vars

\* platformNetifDeinit has run: every handle is -1 and the tunnel index is 0
Deinitialized ==
    /\ sTunFd = -1 /\ sIpFd = -1 /\ sNetlinkFd = -1 /\ sMLDMonitorFd = -1
    /\ sTunIndex = 0

IsDescriptorCall(c) == c.op \in {"ioctl", "setsockopt", "read", "write", "close"}

\* C36: once platformNetifDeinit has run, a call of the address callback, the
\* state callback, the receive callback, platformNetifProcess or
\* platformNetifUpdateFdSet makes no ioctl, setsockopt, read, write or close,
\* platformNetifUpdateFdSet returns the sets and the max-fd it was given, and
\* the receive callback releases its message, once.
C36_QuietAfterDeinit ==
    (/\ Deinitialized
     /\ step.act \in {"processAddressChange", "processStateChange", "processReceive",
                      "platformNetifProcess", "platformNetifUpdateFdSet"}) =>
        /\ SelectSeq(calls, IsDescriptorCall) = << >>
        /\ IsRunning
        /\ step.act = "processReceive" =>
               FreeCalls = << [op |-> "otMessageFree", msg |-> step.dgram] >>
        /\ step.act = "platformNetifUpdateFdSet" =>
               /\ step.out.rd = step.in.rd /\ step.out.wr = step.in.wr
               /\ step.out.er = step.in.er /\ step.out.max = step.in.max

\* the receive callback ran after the teardown and released its message
C36_Witness ==
    /\ Deinitialized
    /\ step.act = "processReceive"
    /\ Len(FreeCalls) = 1
    /\ otUnicast # NoAddrs

============================================================================
